---- MODULE Spec2Model ----
(***************************************************************************)
(* A model of middle-wasm: the guest side of a host/guest boundary that    *)
(* passes structured values through linear memory.                         *)
(*                                                                         *)
(*   - the value codec (MessagePack through serde, as value_to_host and    *)
(*     value_from_host use it),                                            *)
(*   - the boundary memory functions of src/src/lib.rs,                    *)
(*   - the Resumable type and the host call surface (pause, prompt,        *)
(*     request, mprint),                                                   *)
(*   - the entry points that the middle_fn / middle_workflow macros emit.  *)
(***************************************************************************)
EXTENDS Integers, Sequences, FiniteSets, TLC

(***************************************************************************)
(* Bounds of the model.                                                    *)
(***************************************************************************)
\* Number of addressable block slots of the guest's linear memory.
MaxAddr == 5
\* Longest sequence value drawn for the codec.
MaxSeqLen == 2
\* Entry point invocations of one run.
MaxInvocations == 2
\* Parameters of a function item given to the macros.
MaxParams == 2

(***************************************************************************)
(* State.                                                                  *)
(***************************************************************************)
VARIABLES
    heap,        \* linear memory
    guestOwns,   \* blocks a guest value still owns between calls (locals of a call that aborted)
    hostHeld,    \* descriptors the host has received and neither released nor passed on
    faulted,     \* the guest panicked or trapped
    ubSeen,      \* the guest executed undefined behaviour
    hostOK,      \* the host has followed the protocol so far
    unwinds,     \* the build: a panic unwinds (TRUE) or aborts (FALSE)
    invocations, \* entry point invocations so far
    hostFresh,   \* the held descriptors of inputs the host wrote and has not passed yet
    cval,        \* codec run: the typed value under test, [ty, v]
    cblock,      \* codec run: the <<offset, size>> value_to_host returned
    cread,       \* codec run: what value_from_host decoded
    cpc,         \* codec run: "start", "sent", "done"
    macroIn,     \* the function item the macro is applied to
    macroOut,    \* what the macro produced for it
    runs,        \* one record per invocation of the generated entry point
    exported,    \* the symbols the crate exports, in the order they were written or generated
    call         \* the last call of the host call surface

memVars   == <<heap, guestOwns, hostHeld, faulted, ubSeen, hostOK, unwinds, invocations,
               hostFresh>>
codecVars == <<cval, cblock, cread, cpc>>
synthVars == <<macroIn, macroOut, runs, exported>>
vars == <<memVars, codecVars, synthVars, call>>

(***************************************************************************)
(* Bytes and byte strings.                                                 *)
(***************************************************************************)
Byte == 0..255

RECURSIVE SeqLess(_, _)
\* Lexicographic order on byte strings: the order of a BTreeMap<String, _>.
SeqLess(a, b) ==
    IF Len(b) = 0 THEN FALSE
    ELSE IF Len(a) = 0 THEN TRUE
    ELSE IF a[1] # b[1] THEN a[1] < b[1]
    ELSE SeqLess(Tail(a), Tail(b))

RECURSIVE SortedKeys(_)
\* The keys of a map in iteration order.
SortedKeys(S) ==
    IF S = {} THEN << >>
    ELSE LET m == CHOOSE x \in S : \A y \in S \ {x} : SeqLess(x, y)
         IN  <<m>> \o SortedKeys(S \ {m})

\* The names serde gives the variants and the strings the code uses.
StrOk      == <<79, 107>>                 \* "Ok"
StrErr     == <<69, 114, 114>>            \* "Err"
StrPause   == <<80, 97, 117, 115, 101>>   \* "Pause"
StrReady   == <<82, 101, 97, 100, 121>>   \* "Ready"
StrGet     == <<71, 101, 116>>            \* "Get"
StrPost    == <<80, 111, 115, 116>>       \* "Post"

(***************************************************************************)
(* Values.  A value is a record with one tag field:                        *)
(*   [b |-> BOOLEAN]            bool                                       *)
(*   [n |-> Nat]                unsigned integer                           *)
(*   [s |-> byte string]        String                                     *)
(*   [opt |-> <<>> or <<v>>]    Option: None or Some(v)                    *)
(*   [seq |-> <<v, ...>>]       Vec                                        *)
(*   [fields |-> <<v, ...>>]    struct or tuple, fields in declared order  *)
(*   [unit_variant |-> name]    enum variant without payload               *)
(*   [variant |-> name, of |-> v]  enum variant with one payload           *)
(*   [jnull |-> TRUE], [jbool |-> b], [jnum |-> n], [jstr |-> s],          *)
(*   [jarr |-> <<j, ...>>], [jobj |-> [key -> j]]   serde_json::Value      *)
(***************************************************************************)
VBool(x)  == [b |-> x]
VInt(x)   == [n |-> x]
VStr(x)   == [s |-> x]
VNone     == [opt |-> << >>]
VSome(x)  == [opt |-> <<x>>]
VSeq(x)   == [seq |-> x]
VStruct(x) == [fields |-> x]
VUnit(name) == [unit_variant |-> name]
VVariant(name, x) == [variant |-> name, of |-> x]
JNull     == [jnull |-> TRUE]
JBool(x)  == [jbool |-> x]
JNum(x)   == [jnum |-> x]
JStr(x)   == [jstr |-> x]
JArr(x)   == [jarr |-> x]
JObj(f)   == [jobj |-> f]

Is(v, tag) == tag \in DOMAIN v

(***************************************************************************)
(* Types, as the decoder is told them (the T of value_from_host<T>).       *)
(***************************************************************************)
TBool       == [k |-> "bool"]
TUInt       == [k |-> "uint"]
TStr        == [k |-> "str"]
TJson       == [k |-> "json"]
TOpt(t)     == [k |-> "opt", of |-> t]
TSeq(t)     == [k |-> "seq", of |-> t]
TStruct(ts) == [k |-> "struct", fields |-> ts]
\* An enum: its variants in order, each <<name, unit?, payload type>>.
TEnum(vs)   == [k |-> "enum", variants |-> vs]
UnitVar(name)   == [name |-> name, unit |-> TRUE, of |-> TBool]
NewVar(name, t) == [name |-> name, unit |-> FALSE, of |-> t]
TResult(t, e)   == TEnum(<<NewVar(StrOk, t), NewVar(StrErr, e)>>)
TResumable(t)   == TEnum(<<UnitVar(StrPause), NewVar(StrReady, t)>>)

TPair          == TStruct(<<TStr, TStr>>)
TDuration      == TStruct(<<TUInt, TUInt>>)
THostRequestType ==
    TEnum(<<UnitVar(StrGet), UnitVar(StrPost)>>)
\* lib.rs RequestBuilder, its fields in declared order.
TRequestBuilder ==
    TStruct(<<TStr, THostRequestType, TOpt(TSeq(TPair)), TOpt(TPair), TOpt(TStr),
              TOpt(TStr), TOpt(TDuration), TOpt(TSeq(TPair)), TOpt(TJson)>>)
\* lib.rs HostRequestResponse and HostRequestOut.
THostRequestResponse == TStruct(<<TUInt, TSeq(TPair), TStr>>)
THostRequestOut == TResult(THostRequestResponse, TStr)
\* prompt.rs PromptOut.
TPromptOut == TResumable(TResult(TJson, TStr))


(***************************************************************************)
(* rmp_serde::encode::to_vec: MessagePack, integers in their shortest      *)
(* form, structs as arrays, Option as nil or the bare payload, an enum     *)
(* variant as its name or as a one-entry map from its name.                *)
(***************************************************************************)
write_uint(x) ==
    IF x < 128 THEN <<x>>
    ELSE IF x < 256 THEN <<204, x>>
    ELSE IF x < 65536 THEN <<205, x \div 256, x % 256>>
    ELSE <<206, (x \div 16777216) % 256, (x \div 65536) % 256,
                (x \div 256) % 256, x % 256>>

write_str(x) ==
    IF Len(x) < 32 THEN <<160 + Len(x)>> \o x ELSE <<217, Len(x)>> \o x

write_array_len(x) ==
    IF x < 16 THEN <<144 + x>> ELSE <<220, x \div 256, x % 256>>

write_map_len(x) ==
    IF x < 16 THEN <<128 + x>> ELSE <<222, x \div 256, x % 256>>

RECURSIVE Encode(_), EncodeAll(_), EncodeEntries(_, _)
Encode(v) ==
    IF Is(v, "b") THEN (IF v.b THEN <<195>> ELSE <<194>>)
    ELSE IF Is(v, "n") THEN write_uint(v.n)
    ELSE IF Is(v, "s") THEN write_str(v.s)
    ELSE IF Is(v, "opt") THEN
        (IF Len(v.opt) = 0 THEN <<192>> ELSE Encode(v.opt[1]))
    ELSE IF Is(v, "seq") THEN write_array_len(Len(v.seq)) \o EncodeAll(v.seq)
    ELSE IF Is(v, "fields") THEN
        write_array_len(Len(v.fields)) \o EncodeAll(v.fields)
    ELSE IF Is(v, "unit_variant") THEN write_str(v.unit_variant)
    ELSE IF Is(v, "variant") THEN
        write_map_len(1) \o write_str(v.variant) \o Encode(v.of)
    ELSE IF Is(v, "jnull") THEN <<192>>
    ELSE IF Is(v, "jbool") THEN (IF v.jbool THEN <<195>> ELSE <<194>>)
    ELSE IF Is(v, "jnum") THEN write_uint(v.jnum)
    ELSE IF Is(v, "jstr") THEN write_str(v.jstr)
    ELSE IF Is(v, "jarr") THEN write_array_len(Len(v.jarr)) \o EncodeAll(v.jarr)
    ELSE \* jobj
        write_map_len(Cardinality(DOMAIN v.jobj))
            \o EncodeEntries(v.jobj, SortedKeys(DOMAIN v.jobj))

EncodeAll(vs) ==
    IF Len(vs) = 0 THEN << >> ELSE Encode(Head(vs)) \o EncodeAll(Tail(vs))

EncodeEntries(f, keys) ==
    IF Len(keys) = 0 THEN << >>
    ELSE write_str(Head(keys)) \o Encode(f[Head(keys)])
             \o EncodeEntries(f, Tail(keys))

(***************************************************************************)
(* rmp_serde::decode::from_slice: reads one value of the wanted type from  *)
(* the front of the slice; bytes after that value are not looked at.       *)
(* A result is [ok |-> TRUE, v |-> value, p |-> next position] or Fail.    *)
(***************************************************************************)
Fail == [ok |-> FALSE]
Got(v, p) == [ok |-> TRUE, v |-> v, p |-> p]
Has(bs, p, cnt) == p + cnt - 1 <= Len(bs)

read_uint(bs, p) ==
    IF ~Has(bs, p, 1) THEN Fail
    ELSE IF bs[p] < 128 THEN Got(bs[p], p + 1)
    ELSE IF bs[p] = 204 /\ Has(bs, p, 2) THEN Got(bs[p + 1], p + 2)
    ELSE IF bs[p] = 205 /\ Has(bs, p, 3)
        THEN Got(bs[p + 1] * 256 + bs[p + 2], p + 3)
    ELSE IF bs[p] = 206 /\ Has(bs, p, 5)
        THEN Got(bs[p + 1] * 16777216 + bs[p + 2] * 65536
                   + bs[p + 3] * 256 + bs[p + 4], p + 5)
    ELSE Fail

read_str(bs, p) ==
    IF ~Has(bs, p, 1) THEN Fail
    ELSE IF bs[p] >= 160 /\ bs[p] < 192 /\ Has(bs, p, 1 + bs[p] - 160)
        THEN Got(SubSeq(bs, p + 1, p + bs[p] - 160), p + 1 + bs[p] - 160)
    ELSE IF bs[p] = 217 /\ Has(bs, p, 2) /\ Has(bs, p, 2 + bs[p + 1])
        THEN Got(SubSeq(bs, p + 2, p + 1 + bs[p + 1]), p + 2 + bs[p + 1])
    ELSE Fail

read_array_len(bs, p) ==
    IF ~Has(bs, p, 1) THEN Fail
    ELSE IF bs[p] >= 144 /\ bs[p] < 160 THEN Got(bs[p] - 144, p + 1)
    ELSE IF bs[p] = 220 /\ Has(bs, p, 3)
        THEN Got(bs[p + 1] * 256 + bs[p + 2], p + 3)
    ELSE Fail

read_map_len(bs, p) ==
    IF ~Has(bs, p, 1) THEN Fail
    ELSE IF bs[p] >= 128 /\ bs[p] < 144 THEN Got(bs[p] - 128, p + 1)
    ELSE IF bs[p] = 222 /\ Has(bs, p, 3)
        THEN Got(bs[p + 1] * 256 + bs[p + 2], p + 3)
    ELSE Fail

RECURSIVE DecodeJson(_, _), DecodeJsonSeq(_, _, _), DecodeJsonMap(_, _, _)
\* Deserialize for serde_json::Value: driven by the markers alone.
DecodeJson(bs, p) ==
    IF ~Has(bs, p, 1) THEN Fail
    ELSE IF bs[p] = 192 THEN Got(JNull, p + 1)
    ELSE IF bs[p] = 194 THEN Got(JBool(FALSE), p + 1)
    ELSE IF bs[p] = 195 THEN Got(JBool(TRUE), p + 1)
    ELSE IF read_uint(bs, p).ok
        THEN Got(JNum(read_uint(bs, p).v), read_uint(bs, p).p)
    ELSE IF read_str(bs, p).ok
        THEN Got(JStr(read_str(bs, p).v), read_str(bs, p).p)
    ELSE IF read_array_len(bs, p).ok THEN
        LET h == read_array_len(bs, p)
            r == DecodeJsonSeq(bs, h.p, h.v)
        IN  IF r.ok THEN Got(JArr(r.v), r.p) ELSE Fail
    ELSE IF read_map_len(bs, p).ok THEN
        LET h == read_map_len(bs, p)
            r == DecodeJsonMap(bs, h.p, h.v)
        IN  IF r.ok THEN Got(JObj(r.v), r.p) ELSE Fail
    ELSE Fail

DecodeJsonSeq(bs, p, cnt) ==
    IF cnt = 0 THEN Got(<< >>, p)
    ELSE LET r == DecodeJson(bs, p) IN
         IF ~r.ok THEN Fail
         ELSE LET rest == DecodeJsonSeq(bs, r.p, cnt - 1) IN
              IF rest.ok THEN Got(<<r.v>> \o rest.v, rest.p) ELSE Fail

\* The entries are inserted in wire order: a repeated key keeps its last value.
DecodeJsonMap(bs, p, cnt) ==
    IF cnt = 0 THEN Got(<< >>, p)
    ELSE LET key == read_str(bs, p) IN
         IF ~key.ok THEN Fail
         ELSE LET r == DecodeJson(bs, key.p) IN
              IF ~r.ok THEN Fail
              ELSE LET rest == DecodeJsonMap(bs, r.p, cnt - 1) IN
                   IF ~rest.ok THEN Fail
                   ELSE Got([x \in DOMAIN rest.v \cup {key.v} |->
                               IF x \in DOMAIN rest.v THEN rest.v[x] ELSE r.v],
                            rest.p)

VariantNamed(variants, name) ==
    {i \in 1..Len(variants) : variants[i].name = name}

RECURSIVE Decode(_, _, _), DecodeSeq(_, _, _, _), DecodeFields(_, _, _)
Decode(bs, p, ty) ==
    IF ty.k = "bool" THEN
        IF Has(bs, p, 1) /\ bs[p] = 195 THEN Got(VBool(TRUE), p + 1)
        ELSE IF Has(bs, p, 1) /\ bs[p] = 194 THEN Got(VBool(FALSE), p + 1)
        ELSE Fail
    ELSE IF ty.k = "uint" THEN
        LET r == read_uint(bs, p) IN IF r.ok THEN Got(VInt(r.v), r.p) ELSE Fail
    ELSE IF ty.k = "str" THEN
        LET r == read_str(bs, p) IN IF r.ok THEN Got(VStr(r.v), r.p) ELSE Fail
    ELSE IF ty.k = "json" THEN DecodeJson(bs, p)
    ELSE IF ty.k = "opt" THEN
        \* deserialize_option: a nil marker is None, anything else is Some.
        IF ~Has(bs, p, 1) THEN Fail
        ELSE IF bs[p] = 192 THEN Got(VNone, p + 1)
        ELSE LET r == Decode(bs, p, ty.of) IN
             IF r.ok THEN Got(VSome(r.v), r.p) ELSE Fail
    ELSE IF ty.k = "seq" THEN
        LET h == read_array_len(bs, p) IN
        IF ~h.ok THEN Fail
        ELSE LET r == DecodeSeq(bs, h.p, h.v, ty.of) IN
             IF r.ok THEN Got(VSeq(r.v), r.p) ELSE Fail
    ELSE IF ty.k = "struct" THEN
        LET h == read_array_len(bs, p) IN
        IF ~h.ok \/ h.v # Len(ty.fields) THEN Fail
        ELSE LET r == DecodeFields(bs, h.p, ty.fields) IN
             IF r.ok THEN Got(VStruct(r.v), r.p) ELSE Fail
    ELSE \* enum
        IF read_str(bs, p).ok THEN
            LET nm == read_str(bs, p)
                is == VariantNamed(ty.variants, nm.v)
            IN  IF is = {} THEN Fail
                ELSE LET i == CHOOSE i \in is : TRUE IN
                     IF ty.variants[i].unit THEN Got(VUnit(nm.v), nm.p) ELSE Fail
        ELSE IF read_map_len(bs, p).ok /\ read_map_len(bs, p).v = 1 THEN
            LET nm == read_str(bs, p + 1)
                is == IF nm.ok THEN VariantNamed(ty.variants, nm.v) ELSE {}
            IN  IF is = {} THEN Fail
                ELSE LET i == CHOOSE i \in is : TRUE IN
                     IF ty.variants[i].unit THEN Fail
                     ELSE LET r == Decode(bs, nm.p, ty.variants[i].of) IN
                          IF r.ok THEN Got(VVariant(nm.v, r.v), r.p) ELSE Fail
        ELSE Fail

DecodeSeq(bs, p, cnt, ty) ==
    IF cnt = 0 THEN Got(<< >>, p)
    ELSE LET r == Decode(bs, p, ty) IN
         IF ~r.ok THEN Fail
         ELSE LET rest == DecodeSeq(bs, r.p, cnt - 1, ty) IN
              IF rest.ok THEN Got(<<r.v>> \o rest.v, rest.p) ELSE Fail

DecodeFields(bs, p, tys) ==
    IF Len(tys) = 0 THEN Got(<< >>, p)
    ELSE LET r == Decode(bs, p, Head(tys)) IN
         IF ~r.ok THEN Fail
         ELSE LET rest == DecodeFields(bs, r.p, Tail(tys)) IN
              IF rest.ok THEN Got(<<r.v>> \o rest.v, rest.p) ELSE Fail

\* from_slice(&vec): the value at the front of the slice.
from_slice(bs, ty) == Decode(bs, 1, ty)


(***************************************************************************)
(* Linear memory.  An address names a slot that holds at most one block;  *)
(* a live block has the capacity it was allocated with and the bytes that  *)
(* were written to it.  The allocator hands out the lowest free slot, so   *)
(* the address of a released block is used again.                          *)
(***************************************************************************)
Addr == 1..MaxAddr
FreeBlock == [live |-> FALSE, cap |-> 0, bytes |-> << >>]
EmptyHeap == [a \in Addr |-> FreeBlock]
Handle(a, sz) == [addr |-> a, size |-> sz]

FreeSlots(h) == {a \in Addr : ~h[a].live}
Outstanding(h) == {a \in Addr : h[a].live}
FirstFree(h) == CHOOSE a \in FreeSlots(h) : \A b \in FreeSlots(h) : a <= b

\* u32::to_le_bytes / u32::from_le_bytes.
Reverse4(bs) == <<bs[4], bs[3], bs[2], bs[1]>>
to_le_bytes(u) ==
    <<u % 256, (u \div 256) % 256, (u \div 65536) % 256, (u \div 16777216) % 256>>
from_le_bytes(bs) ==
    bs[1] + bs[2] * 256 + bs[3] * 65536 + bs[4] * 16777216

(***************************************************************************)
(* The guest while it runs one call: m.heap, the blocks the guest owns a   *)
(* Vec or Box for (m.owned), the descriptors it has handed to the host     *)
(* (m.sent), whether it panicked (m.fault), whether it executed undefined  *)
(* behaviour (m.ub), and what the build and the environment decide:        *)
(*   m.unwinds  a panic unwinds (dropping the locals) or aborts,           *)
(*   m.slack    spare capacity of an encoder's buffer,                     *)
(*   m.junk     the byte read from memory that was never written,          *)
(*   m.traps    undefined behaviour stops the guest or goes unnoticed.     *)
(***************************************************************************)
Ret(m, r) == [m |-> m, ret |-> r]

\* A fresh allocation of cap bytes holding bs, not owned by any guest value
\* (the Vec or Box was taken apart with into_raw_parts / into_raw).
\* With no memory left the allocator aborts the guest (handle_alloc_error).
AllocForgotten(m, cap, bs) ==
    IF FreeSlots(m.heap) = {} THEN Ret([m EXCEPT !.fault = TRUE], 0)
    ELSE LET a == FirstFree(m.heap) IN
         Ret([m EXCEPT !.heap[a] = [live |-> TRUE, cap |-> cap, bytes |-> bs]], a)

\* Vec::from_raw_parts(offset, size, size) / Box::from_raw: the guest now
\* owns whatever is at offset.  It is undefined behaviour when nothing live
\* is there, when the capacity differs, or when a guest value owns it already.
FromRaw(m, offset, size) ==
    LET bad == \/ offset \notin Addr
               \/ ~m.heap[offset].live
               \/ m.heap[offset].cap # size
               \/ offset \in m.owned
    IN  [m EXCEPT !.owned = IF offset \in Addr /\ m.heap[offset].live
                            THEN @ \cup {offset} ELSE @,
                  !.ub = @ \/ bad,
                  !.fault = @ \/ (bad /\ m.traps)]

\* Dropping the Vec or Box for the block at offset gives the memory back.
DropRaw(m, offset) ==
    IF offset \in m.owned
    THEN [m EXCEPT !.heap[offset] = FreeBlock, !.owned = @ \ {offset},
                   !.freed = Append(@, offset)]
    ELSE m

\* The size bytes at offset as the guest reads them.
ReadRaw(m, offset, size) ==
    LET bs == IF offset \in Addr THEN m.heap[offset].bytes ELSE << >>
    IN  [i \in 1..size |-> IF i <= Len(bs) THEN bs[i] ELSE m.junk]

\* A panic: with unwinding every local Vec and Box is dropped on the way out.
Panic(m, locals) ==
    [m EXCEPT !.fault = TRUE,
              !.heap = IF m.unwinds
                       THEN [a \in Addr |-> IF a \in locals THEN FreeBlock ELSE @[a]]
                       ELSE @,
              !.owned = IF m.unwinds THEN @ \ locals ELSE @,
              !.freed = IF m.unwinds /\ locals # {}
                        THEN Append(@, CHOOSE a \in locals : TRUE) ELSE @]

\* lib.rs wasm_alloc: a buffer of capacity len for the host to fill.
wasm_alloc(m, len) == AllocForgotten(m, len, << >>)

\* A value_to_host that lets the buffer drop instead of forgetting it.
value_to_host_dropped(m, v) ==
    Ret(m, <<FirstFree(m.heap), Len(Encode(v)) + m.slack>>)

\* lib.rs value_to_host: encode, forget the buffer, return (ptr, cap).
value_to_host(m, v) ==
    LET parts(r, cap) == Ret(r.m, <<r.ret, cap>>)
        forget(bs) == parts(AllocForgotten(m, Len(bs) + m.slack, bs), Len(bs) + m.slack)
    IN  forget(Encode(v))

\* A vec_parts_to_host that writes each word most significant byte first.
vec_parts_to_host_be(m, offset, size) ==
    AllocForgotten(m, 8, Reverse4(to_le_bytes(offset)) \o Reverse4(to_le_bytes(size)))

\* lib.rs vec_parts_to_host: box the 8-byte record and return its address.
vec_parts_to_host(m, offset, size) ==
    AllocForgotten(m, 8, to_le_bytes(offset) \o to_le_bytes(size))

\* An unforget that rebuilds nothing.
unforget_noop(m, offset, size) == m

\* lib.rs unforget: rebuild the Vec and drop it.
unforget(m, offset, size) ==
    LET t == FromRaw(m, offset, size) IN
    IF t.fault THEN t ELSE DropRaw(t, offset)

\* A value_from_host that forgets the rebuilt Vec instead of dropping it.
value_from_host_leak(m, offset, size, ty) ==
    LET out(t, d) == IF ~d.ok THEN Ret(Panic(t, {}), Fail) ELSE Ret(t, d)
        vec(t) == IF t.fault THEN Ret(t, Fail)
                  ELSE out(t, from_slice(ReadRaw(t, offset, size), ty))
    IN  vec(FromRaw(m, offset, size))

\* lib.rs value_from_host: rebuild the Vec, decode a T from it, drop it.
\* ret is the decoded value; a decode error panics inside the function,
\* while the Vec is still a local.
value_from_host(m, offset, size, ty) ==
    LET out(t, d) == IF ~d.ok THEN Ret(Panic(t, {offset} \cap t.owned), Fail)
                     ELSE Ret(DropRaw(t, offset), d)
        vec(t) == IF t.fault THEN Ret(t, Fail)
                  ELSE out(t, from_slice(ReadRaw(t, offset, size), ty))
    IN  vec(FromRaw(m, offset, size))

\* lib.rs vec_parts_from_host: rebuild the Box<[u8; 8]>, read both words.
vec_parts_from_host(m, offset) ==
    LET out(t, bs) ==
            Ret(DropRaw(t, offset),
                <<from_le_bytes(SubSeq(bs, 1, 4)), from_le_bytes(SubSeq(bs, 5, 8))>>)
        buf(t) == IF t.fault THEN Ret(t, <<0, 0>>) ELSE out(t, ReadRaw(t, offset, 8))
    IN  buf(FromRaw(m, offset, 8))


(***************************************************************************)
(* serde_json::from_value and serde_json::to_value.  A struct type may     *)
(* carry the names of its fields: a JSON object is read by name (a missing *)
(* Option field reads as None, unknown keys are skipped), a JSON array by  *)
(* position.                                                               *)
(***************************************************************************)
TNamed(names, ts) == [k |-> "struct", fields |-> ts, names |-> names]

RECURSIVE from_value(_, _), FromValueSeq(_, _), FromValueByPos(_, _),
          FromValueByName(_, _, _)
from_value(j, ty) ==
    IF ty.k = "bool" THEN (IF Is(j, "jbool") THEN Got(VBool(j.jbool), 0) ELSE Fail)
    ELSE IF ty.k = "uint" THEN (IF Is(j, "jnum") THEN Got(VInt(j.jnum), 0) ELSE Fail)
    ELSE IF ty.k = "str" THEN (IF Is(j, "jstr") THEN Got(VStr(j.jstr), 0) ELSE Fail)
    ELSE IF ty.k = "json" THEN Got(j, 0)
    ELSE IF ty.k = "opt" THEN
        IF Is(j, "jnull") THEN Got(VNone, 0)
        ELSE LET r == from_value(j, ty.of) IN
             IF r.ok THEN Got(VSome(r.v), 0) ELSE Fail
    ELSE IF ty.k = "seq" THEN
        IF ~Is(j, "jarr") THEN Fail
        ELSE LET r == FromValueSeq(j.jarr, ty.of) IN
             IF r.ok THEN Got(VSeq(r.v), 0) ELSE Fail
    ELSE IF ty.k = "struct" THEN
        IF Is(j, "jarr") /\ Len(j.jarr) = Len(ty.fields) THEN
            LET r == FromValueByPos(j.jarr, ty.fields) IN
            IF r.ok THEN Got(VStruct(r.v), 0) ELSE Fail
        ELSE IF Is(j, "jobj") /\ Is(ty, "names") THEN
            LET r == FromValueByName(j.jobj, ty.names, ty.fields) IN
            IF r.ok THEN Got(VStruct(r.v), 0) ELSE Fail
        ELSE Fail
    ELSE \* enum
        IF Is(j, "jstr") THEN
            LET is == VariantNamed(ty.variants, j.jstr) IN
            IF is # {} /\ ty.variants[CHOOSE i \in is : TRUE].unit
            THEN Got(VUnit(j.jstr), 0) ELSE Fail
        ELSE IF Is(j, "jobj") /\ Cardinality(DOMAIN j.jobj) = 1 THEN
            LET nm == CHOOSE key \in DOMAIN j.jobj : TRUE
                is == VariantNamed(ty.variants, nm)
            IN  IF is = {} \/ ty.variants[CHOOSE i \in is : TRUE].unit THEN Fail
                ELSE LET r == from_value(j.jobj[nm],
                                         ty.variants[CHOOSE i \in is : TRUE].of) IN
                     IF r.ok THEN Got(VVariant(nm, r.v), 0) ELSE Fail
        ELSE Fail

FromValueSeq(js, ty) ==
    IF Len(js) = 0 THEN Got(<< >>, 0)
    ELSE LET r == from_value(Head(js), ty)
             rest == FromValueSeq(Tail(js), ty)
         IN  IF r.ok /\ rest.ok THEN Got(<<r.v>> \o rest.v, 0) ELSE Fail

FromValueByPos(js, tys) ==
    IF Len(tys) = 0 THEN Got(<< >>, 0)
    ELSE LET r == from_value(Head(js), Head(tys))
             rest == FromValueByPos(Tail(js), Tail(tys))
         IN  IF r.ok /\ rest.ok THEN Got(<<r.v>> \o rest.v, 0) ELSE Fail

FromValueByName(obj, names, tys) ==
    IF Len(tys) = 0 THEN Got(<< >>, 0)
    ELSE LET r == IF Head(names) \in DOMAIN obj
                  THEN from_value(obj[Head(names)], Head(tys))
                  ELSE IF Head(tys).k = "opt" THEN Got(VNone, 0) ELSE Fail
             rest == FromValueByName(obj, Tail(names), Tail(tys))
         IN  IF r.ok /\ rest.ok THEN Got(<<r.v>> \o rest.v, 0) ELSE Fail

RECURSIVE to_value(_), ToValueAll(_)
\* to_value of a value without named fields (a newtype struct is its payload).
to_value(v) ==
    IF Is(v, "b") THEN JBool(v.b)
    ELSE IF Is(v, "n") THEN JNum(v.n)
    ELSE IF Is(v, "s") THEN JStr(v.s)
    ELSE IF Is(v, "opt") THEN (IF Len(v.opt) = 0 THEN JNull ELSE to_value(v.opt[1]))
    ELSE IF Is(v, "seq") THEN JArr(ToValueAll(v.seq))
    ELSE IF Is(v, "fields") THEN JArr(ToValueAll(v.fields))
    ELSE IF Is(v, "unit_variant") THEN JStr(v.unit_variant)
    ELSE IF Is(v, "variant") THEN JObj([key \in {v.variant} |-> to_value(v.of)])
    ELSE IF Is(v, "newtype") THEN to_value(v.newtype)
    ELSE v

ToValueAll(vs) ==
    IF Len(vs) = 0 THEN << >> ELSE <<to_value(Head(vs))>> \o ToValueAll(Tail(vs))

(***************************************************************************)
(* lib.rs Resumable<T> and its Try / FromResidual implementations.         *)
(***************************************************************************)
Pause == VUnit(StrPause)
Ready(inner) == VVariant(StrReady, inner)
IsPause(r) == Is(r, "unit_variant")

\* Try::branch
branch(self) ==
    IF IsPause(self) THEN [tag |-> "Break", residual |-> Pause]
    ELSE [tag |-> "Continue", output |-> self.of]
\* Try::from_output
from_output(output) == Ready(output)
\* A from_residual that wraps the residual as if it were an output.
from_residual_ready(residual) == Ready(residual)
\* FromResidual::from_residual (the residual is always Pause)
from_residual(residual) == Pause

ROk(inner)  == VVariant(StrOk, inner)
RErr(inner) == VVariant(StrErr, inner)
IsOk(r) == r.variant = StrOk

(***************************************************************************)
(* Unsigned integers wider than the checker's own, as little-endian        *)
(* sequences of 16-bit limbs: Duration's u64 seconds and u128 milliseconds.*)
(***************************************************************************)
RECURSIVE BigMulAdd(_, _, _)
\* big * small + carry
BigMulAdd(big, small, carry) ==
    IF Len(big) = 0
    THEN (IF carry = 0 THEN << >>
          ELSE <<carry % 65536>> \o BigMulAdd(<< >>, small, carry \div 65536))
    ELSE <<(big[1] * small + carry) % 65536>>
            \o BigMulAdd(Tail(big), small, (big[1] * small + carry) \div 65536)

RECURSIVE BigNorm(_)
\* without leading zero limbs
BigNorm(big) ==
    IF Len(big) > 0 /\ big[Len(big)] = 0 THEN BigNorm(SubSeq(big, 1, Len(big) - 1))
    ELSE big

\* std::time::Duration: whole seconds (u64) and the nanoseconds below one.
Duration(secs, nanos) == [secs |-> secs, nanos |-> nanos]
\* Duration::as_millis, a u128
as_millis(d) == BigNorm(BigMulAdd(d.secs, 1000, d.nanos \div 1000000))
\* u64::try_from(u128).is_ok()
FitsU64(big) == Len(big) <= 4

(***************************************************************************)
(* The host imports.  The host learns the descriptors it is called with;   *)
(* a response comes back in blocks the host obtained from wasm_alloc and   *)
(* filled: the payload and the 8-byte record that describes it.            *)
(***************************************************************************)
Called(m, name, args) == [m EXCEPT !.calls = Append(@, <<name, args>>)]
Sent(m, offset, size) == [m EXCEPT !.sent = @ \cup {Handle(offset, size)}]

HostWrite(m, a, bs) == [m EXCEPT !.heap[a].bytes = bs]

HostRespond(m, bs) ==
    LET record(p, q) ==
            Ret(HostWrite(q.m, q.ret, to_le_bytes(p.ret) \o to_le_bytes(Len(bs))), q.ret)
        block(p) == record(p, wasm_alloc(HostWrite(p.m, p.ret, bs), 8))
    IN  block(wasm_alloc(m, Len(bs)))

host_print(m, offset, size) ==
    Sent(Called(m, "host_print", <<offset, size>>), offset, size)
host_request(m, offset, size, answer) ==
    HostRespond(Sent(Called(m, "host_request", <<offset, size>>), offset, size), answer)
host_prompt(m, offset, size, answer) ==
    HostRespond(Sent(Called(m, "host_prompt", <<offset, size>>), offset, size), answer)
host_pause(m, millis, answer) ==
    Ret(Called(m, "host_pause", millis), answer)

\* RequestBuilder::new and the setters.
RequestBuilder_new(url, method) ==
    VStruct(<<VStr(url), VUnit(method), VNone, VNone, VNone, VNone, VNone,
              VNone, VNone>>)
with_json(rb, j) == VStruct([rb.fields EXCEPT ![9] = VSome(j)])
with_bearer_auth(rb, tok) == VStruct([rb.fields EXCEPT ![5] = VSome(VStr(tok))])
set_basic_auth(rb, user, pw) ==
    VStruct([rb.fields EXCEPT ![4] = VSome(VStruct(<<VStr(user), VStr(pw)>>))])
set_form_key(rb, key, val) ==
    VStruct([rb.fields EXCEPT ![8] =
        IF Len(@.opt) = 0
        THEN VSome(VSeq(<<VStruct(<<VStr(key), VStr(val)>>)>>))
        ELSE VSome(VSeq(Append(@.opt[1].seq, VStruct(<<VStr(key), VStr(val)>>))))])

(***************************************************************************)
(* The host call surface of lib.rs and prompt.rs.                          *)
(***************************************************************************)
\* lib.rs mprint
mprint(m, input) ==
    LET print(r) == host_print(r.m, r.ret[1], r.ret[2]) IN
    print(value_to_host(m, VStr(input)))

\* A request that signals Pause when the host reports an error.
request_resumable(m, input, answer) ==
    LET withOut(o) ==
            IF o.m.fault THEN Ret(o.m, Fail)
            ELSE IF IsOk(o.ret.v) THEN Ret(o.m, o.ret.v)
            ELSE Ret(o.m, VUnit(StrPause))
        withParts(q) ==
            IF q.m.fault THEN Ret(q.m, Fail)
            ELSE withOut(value_from_host(q.m, q.ret[1], q.ret[2], THostRequestOut))
        withOffset(h) == withParts(vec_parts_from_host(h.m, h.ret))
        withInput(r) == withOffset(host_request(r.m, r.ret[1], r.ret[2], answer))
    IN  withInput(value_to_host(m, input))

\* lib.rs request: ret is out.0, the Result the host's block decoded to.
request(m, input, answer) ==
    LET withOut(o) ==
            IF o.m.fault THEN Ret(o.m, Fail)
            ELSE Ret(o.m, o.ret.v)
        withParts(q) ==
            IF q.m.fault THEN Ret(q.m, Fail)
            ELSE withOut(value_from_host(q.m, q.ret[1], q.ret[2], THostRequestOut))
        withOffset(h) == withParts(vec_parts_from_host(h.m, h.ret))
        withInput(r) == withOffset(host_request(r.m, r.ret[1], r.ret[2], answer))
    IN  withInput(value_to_host(m, input))

\* lib.rs pause: ret is a Resumable<()>; the unit is written as an empty tuple.
Unit == VStruct(<< >>)
\* A pause that is Pause whatever the host returned.
pause_deaf(m, duration, answer) ==
    IF ~FitsU64(as_millis(duration)) THEN Ret(Panic(m, {}), Fail)
    ELSE LET r == host_pause(m, as_millis(duration), answer) IN
         Ret(r.m, Pause)

pause(m, duration, answer) ==
    IF ~FitsU64(as_millis(duration)) THEN Ret(Panic(m, {}), Fail)
    ELSE LET r == host_pause(m, as_millis(duration), answer) IN
         Ret(r.m, IF r.ret = 0 THEN Pause ELSE Ready(Unit))

StrType       == <<116, 121, 112, 101>>
StrProperties == <<112, 114, 111, 112, 101, 114, 116, 105, 101, 115>>
StrRequired   == <<114, 101, 113, 117, 105, 114, 101, 100>>

\* The JSON type name schemars gives a type.
SchemaTypeName(ty) ==
    IF ty.k = "uint" THEN JStr(<<105, 110, 116, 101, 103, 101, 114>>)
    ELSE IF ty.k = "str" THEN JStr(<<115, 116, 114, 105, 110, 103>>)
    ELSE IF ty.k = "bool" THEN JStr(<<98, 111, 111, 108, 101, 97, 110>>)
    ELSE IF ty.k = "seq" THEN JStr(<<97, 114, 114, 97, 121>>)
    ELSE JStr(<<111, 98, 106, 101, 99, 116>>)

RECURSIVE SchemaFor(_)
\* schemars::schema_for!(T), as far as this model needs a schema: the JSON
\* type name of T and, of a struct with named fields, the schema of each
\* field under its name and the names of the fields that are required.
SchemaFor(ty) ==
    IF ty.k = "struct" /\ "names" \in DOMAIN ty
    THEN JObj([key \in {StrType, StrProperties, StrRequired} |->
            IF key = StrType THEN SchemaTypeName(ty)
            ELSE IF key = StrProperties
                THEN JObj([name \in {ty.names[i] : i \in 1..Len(ty.names)} |->
                        SchemaFor(ty.fields[CHOOSE i \in 1..Len(ty.names) :
                                                ty.names[i] = name])])
            ELSE JArr([i \in 1..Len(ty.names) |-> JStr(ty.names[i])])])
    ELSE JObj([key \in {StrType} |-> SchemaTypeName(ty)])

\* prompt.rs prompt_with_schema: ret is a Resumable<Result<Value, Error>>.
prompt_with_schema(m, schema, answer) ==
    LET withOut(o) ==
            IF o.m.fault THEN Ret(o.m, Fail)
            ELSE IF branch(o.ret.v).tag = "Break"
                THEN Ret(o.m, from_residual(branch(o.ret.v).residual))
            ELSE IF IsOk(branch(o.ret.v).output)
                THEN Ret(o.m, Ready(ROk(branch(o.ret.v).output.of)))
            ELSE Ret(o.m, Ready(RErr(branch(o.ret.v).output.of)))
        withParts(q) ==
            IF q.m.fault THEN Ret(q.m, Fail)
            ELSE withOut(value_from_host(q.m, q.ret[1], q.ret[2], TPromptOut))
        withOffset(h) == withParts(vec_parts_from_host(h.m, h.ret))
        withInfo(r) == withOffset(host_prompt(r.m, r.ret[1], r.ret[2], answer))
    IN  withInfo(value_to_host(m, VStruct(<<schema>>)))

DeserializeError ==
    VStr(<<68, 101, 115, 101, 114, 105, 97, 108, 105, 122, 101, 32, 101, 114, 114,
           111, 114>>)

\* A prompt that unwraps the conversion instead of returning its error.
prompt_unwrap(m, ty, answer) ==
    LET withOut(m1, out) ==
            IF out.ok THEN Ret(m1, Ready(ROk(out.v)))
            ELSE Ret(Panic(m1, {}), Fail)
        withValue(r) ==
            IF r.m.fault THEN r
            ELSE IF branch(r.ret).tag = "Break"
                THEN Ret(r.m, from_residual(branch(r.ret).residual))
            ELSE IF ~IsOk(branch(r.ret).output)
                THEN Ret(r.m, Ready(RErr(branch(r.ret).output.of)))
            ELSE withOut(r.m, from_value(branch(r.ret).output.of, ty))
    IN  withValue(prompt_with_schema(m, SchemaFor(ty), answer))

\* prompt.rs prompt<T>: ret is a Resumable<Result<T, Error>>.
prompt(m, ty, answer) ==
    LET withOut(m1, out) ==
            IF out.ok THEN Ret(m1, Ready(ROk(out.v)))
            ELSE Ret(m1, Ready(RErr(DeserializeError)))
        withValue(r) ==
            IF r.m.fault THEN r
            ELSE IF branch(r.ret).tag = "Break"
                THEN Ret(r.m, from_residual(branch(r.ret).residual))
            ELSE IF ~IsOk(branch(r.ret).output)
                THEN Ret(r.m, Ready(RErr(branch(r.ret).output.of)))
            ELSE withOut(r.m, from_value(branch(r.ret).output.of, ty))
    IN  withValue(prompt_with_schema(m, SchemaFor(ty), answer))

(***************************************************************************)
(* The macros' input: a function item as syn parses it.                    *)
(*   sig.ident    the function's name                                      *)
(*   sig.inputs   the arguments: a receiver, or a typed argument with its  *)
(*                pattern and its type                                     *)
(*   sig.output   no return type (Default) or a type                       *)
(*   block        the body; for this model the host calls it makes         *)
(* A type is a path (last segment, kind of bracket, generic arguments) or  *)
(* something else (a tuple, a reference, ...).                             *)
(***************************************************************************)
IdU32       == <<117, 51, 50>>
IdString    == <<83, 116, 114, 105, 110, 103>>
IdBool      == <<98, 111, 111, 108>>
IdOption    == <<79, 112, 116, 105, 111, 110>>
IdVec       == <<86, 101, 99>>
IdResult    == <<82, 101, 115, 117, 108, 116>>
IdResumable == <<82, 101, 115, 117, 109, 97, 98, 108, 101>>

SynPath(seg, bracket, gargs) ==
    [form |-> "path", seg |-> seg, bracket |-> bracket, gargs |-> gargs]
SynLeaf(seg) == SynPath(seg, "none", << >>)
SynTuple == [form |-> "tuple"]
GType(t) == [g |-> "type", ty |-> t]
GLifetime == [g |-> "lifetime"]
SynGeneric(seg, ts) == SynPath(seg, "angle", [i \in 1..Len(ts) |-> GType(ts[i])])

Receiver == [arg |-> "receiver"]
TypedArg(pat, ty) == [arg |-> "typed", pat |-> pat, ty |-> ty]
PatIdent(ident) == [pat |-> "ident", ident |-> ident]
PatTuple == [pat |-> "tuple"]
IdentArg(ident, ty) == TypedArg(PatIdent(ident), ty)

ReturnDefault == [ret |-> "default"]
ReturnType(ty) == [ret |-> "type", ty |-> ty]

ItemFn(ident, inputs, output, doc, block) ==
    [sig |-> [ident |-> ident, inputs |-> inputs, output |-> output],
     doc |-> doc, block |-> block]

RECURSIVE RuntimeType(_)
\* The type a written type denotes, as the codec knows types.
RuntimeType(t) ==
    LET arg(i) == IF Len(t.gargs) >= i /\ t.gargs[i].g = "type"
                  THEN RuntimeType(t.gargs[i].ty) ELSE TJson
    IN  IF t.form # "path" THEN TStruct(<< >>)
        ELSE IF t.seg = IdU32 THEN TUInt
        ELSE IF t.seg = IdString THEN TStr
        ELSE IF t.seg = IdBool THEN TBool
        ELSE IF t.seg = IdOption THEN TOpt(arg(1))
        ELSE IF t.seg = IdVec THEN TSeq(arg(1))
        ELSE IF t.seg = IdResult THEN TResult(arg(1), arg(2))
        ELSE IF t.seg = IdResumable THEN TResumable(arg(1))
        ELSE TJson

(***************************************************************************)
(* macros/src/function.rs middle_fn_inner and macros/src/workflow.rs       *)
(* middle_workflow_inner.  The result is the generated code, or the panic  *)
(* that ends the build.                                                    *)
(***************************************************************************)
Rejected(msg) == [ok |-> FALSE, panic |-> msg]

RECURSIVE CollectArgsSwapped(_)
\* A for_each that lists the call's arguments last to first.
CollectArgsSwapped(inputs) ==
    IF Len(inputs) = 0 THEN [ok |-> TRUE, in_sig |-> << >>, called_in |-> << >>]
    ELSE IF Head(inputs).arg = "receiver"
        THEN Rejected("exported functions must not have self as a first argument")
    ELSE IF Head(inputs).pat.pat # "ident"
        THEN Rejected("unexpected parameter in function type signature")
    ELSE LET rest == CollectArgsSwapped(Tail(inputs)) IN
         IF ~rest.ok THEN rest
         ELSE [ok |-> TRUE,
               in_sig |-> <<[name |-> Head(inputs).pat.ident, ty |-> Head(inputs).ty]>>
                              \o rest.in_sig,
               called_in |-> rest.called_in \o <<Head(inputs).pat.ident>>]

RECURSIVE CollectArgsSkipping(_)
\* A for_each that passes over what it cannot name instead of panicking.
CollectArgsSkipping(inputs) ==
    IF Len(inputs) = 0 THEN [ok |-> TRUE, in_sig |-> << >>, called_in |-> << >>]
    ELSE IF Head(inputs).arg = "receiver" \/ Head(inputs).pat.pat # "ident"
        THEN CollectArgsSkipping(Tail(inputs))
    ELSE LET rest == CollectArgsSkipping(Tail(inputs)) IN
         IF ~rest.ok THEN rest
         ELSE [ok |-> TRUE,
               in_sig |-> <<[name |-> Head(inputs).pat.ident, ty |-> Head(inputs).ty]>>
                              \o rest.in_sig,
               called_in |-> <<Head(inputs).pat.ident>> \o rest.called_in]

RECURSIVE CollectArgs(_)
\* The for_each over sig.inputs: in_sig and called_in, or the first panic.
CollectArgs(inputs) ==
    IF Len(inputs) = 0 THEN [ok |-> TRUE, in_sig |-> << >>, called_in |-> << >>]
    ELSE IF Head(inputs).arg = "receiver"
        THEN Rejected("exported functions must not have self as a first argument")
    ELSE IF Head(inputs).pat.pat # "ident"
        THEN Rejected("unexpected parameter in function type signature")
    ELSE LET rest == CollectArgs(Tail(inputs)) IN
         IF ~rest.ok THEN rest
         ELSE [ok |-> TRUE,
               in_sig |-> <<[name |-> Head(inputs).pat.ident, ty |-> Head(inputs).ty]>>
                              \o rest.in_sig,
               called_in |-> <<Head(inputs).pat.ident>> \o rest.called_in]

\* An out_sig that takes a missing return type for the unit type.
FnOutSigUnit(output) ==
    IF output.ret = "default" THEN [ok |-> TRUE, ty |-> SynTuple]
    ELSE [ok |-> TRUE, ty |-> output.ty]

\* function.rs: the return type is taken as written.
FnOutSig(output) ==
    IF output.ret = "default"
    THEN Rejected("exported functions must have an explicit return type")
    ELSE [ok |-> TRUE, ty |-> output.ty]

\* An out_sig as function.rs has it: the return type as written.
WorkflowOutSigWhole(output) ==
    IF output.ret = "default"
    THEN Rejected("exported functions must have an explicit return type")
    ELSE [ok |-> TRUE, ty |-> output.ty]

\* workflow.rs: the return type must be Resumable<T>; T is taken.
WorkflowOutSig(output) ==
    IF output.ret = "default"
    THEN Rejected("exported functions must have an explicit return type")
    ELSE IF output.ty.form # "path"
        THEN Rejected("Return type is unexpected. Workflows must return Resumable<...>")
    ELSE IF output.ty.seg # IdResumable
        THEN Rejected("Incorrect return type. Workflows must return Resumable<...>")
    ELSE IF output.ty.bracket # "angle"
        THEN Rejected("Resumable<T> must be called with angle brackets. Workflows must return Resumable<...>")
    ELSE IF Len(output.ty.gargs) # 1
        THEN Rejected("Resumable<T> must be called with a single argument. Workflows must return Resumable<...>")
    ELSE IF output.ty.gargs[1].g # "type"
        THEN Rejected(". Workflows must return Resumable<...>")
    ELSE [ok |-> TRUE, ty |-> output.ty.gargs[1].ty]

RECURSIVE JoinLines(_)
JoinLines(lines) ==
    IF Len(lines) = 0 THEN << >>
    ELSE IF Len(lines) = 1 THEN lines[1]
    ELSE lines[1] \o <<10>> \o JoinLines(Tail(lines))

\* crate::extract_doc: the item's documentation, one line per doc comment,
\* the lines joined by a line feed.
extract_doc(input) == JoinLines(input.doc)

\* A quote! whose introspection entry point is named without the item's
\* name.
GeneratedAnonymous(kind, input, args, out_sig, fn_prefix, info_prefix, in_prefix, out_prefix) ==
    [ok |-> TRUE,
     kind |-> kind,
     item |-> input,
     fn_name |-> input.sig.ident,
     user_fn_name |-> fn_prefix \o input.sig.ident,
     introspect_fn_name |-> info_prefix,
     in_struct |-> [ident |-> in_prefix \o input.sig.ident, fields |-> args.in_sig],
     out_struct |-> [ident |-> out_prefix \o input.sig.ident, of |-> out_sig],
     call_args |-> args.called_in,
     help_str |-> extract_doc(input)]

\* What quote! emits, as a record of its parts.
Generated(kind, input, args, out_sig, fn_prefix, info_prefix, in_prefix, out_prefix) ==
    [ok |-> TRUE,
     kind |-> kind,
     item |-> input,
     fn_name |-> input.sig.ident,
     user_fn_name |-> fn_prefix \o input.sig.ident,
     introspect_fn_name |-> info_prefix \o input.sig.ident,
     in_struct |-> [ident |-> in_prefix \o input.sig.ident, fields |-> args.in_sig],
     out_struct |-> [ident |-> out_prefix \o input.sig.ident, of |-> out_sig],
     call_args |-> args.called_in,
     help_str |-> extract_doc(input)]

middle_fn_inner(input) ==
    IF ~CollectArgs(input.sig.inputs).ok THEN CollectArgs(input.sig.inputs)
    ELSE IF ~FnOutSig(input.sig.output).ok THEN FnOutSig(input.sig.output)
    ELSE Generated("fn", input, CollectArgs(input.sig.inputs),
                   FnOutSig(input.sig.output).ty,
                   <<117, 115, 101, 114, 95, 102, 110, 95, 95>>,
                   <<117, 115, 101, 114, 95, 102, 110, 95, 105, 110, 102, 111, 95, 95>>,
                   <<85, 115, 101, 114, 70, 110, 73, 110, 95, 95>>,
                   <<85, 115, 101, 114, 70, 110, 79, 117, 116, 95, 95>>)

middle_workflow_inner(input) ==
    IF ~CollectArgs(input.sig.inputs).ok THEN CollectArgs(input.sig.inputs)
    ELSE IF ~WorkflowOutSig(input.sig.output).ok THEN WorkflowOutSig(input.sig.output)
    ELSE Generated("workflow", input, CollectArgs(input.sig.inputs),
                   WorkflowOutSig(input.sig.output).ty,
                   <<117, 115, 101, 114, 95, 119, 111, 114, 107, 102, 108, 111, 119, 95, 95>>,
                   <<117, 115, 101, 114, 95, 119, 111, 114, 107, 102, 108, 111, 119, 95,
                     105, 110, 102, 111, 95, 95>>,
                   <<85, 115, 101, 114, 87, 111, 114, 107, 102, 108, 111, 119, 73, 110, 95, 95>>,
                   <<85, 115, 101, 114, 87, 111, 114, 107, 102, 108, 111, 119, 79, 117, 116,
                     95, 95>>)

(***************************************************************************)
(* The user's function.  Its body is a list of steps, each one host call:  *)
(*   "print"    mprint("x");                                               *)
(*   "request"  let r = RequestBuilder::get(url).call();                   *)
(*   "pause"    pause(d)?;                 (returning Resumable only)      *)
(*   "prompt"   let r = prompt::<u32>()?;  (returning Resumable only)      *)
(* and it returns a number built from its integer arguments and from what  *)
(* the steps gave it, as Resumable::Ready of that number where the         *)
(* function is declared to return Resumable.                               *)
(* answers[i] is what the host answers to step i: [ret |-> the word        *)
(* host_pause returns, bytes |-> the response block's contents].           *)
(***************************************************************************)
PauseFor == Duration(<< >>, 100000000)   \* 100 ms
RequestUrl == <<117>>

RECURSIVE SumInts(_)
SumInts(args) ==
    IF Len(args) = 0 THEN 0
    ELSE (IF Is(Head(args), "n") THEN Head(args).n ELSE 0) + SumInts(Tail(args))

Gain(r) == IF IsOk(r) /\ Is(r.of, "n") THEN r.of.n ELSE IF IsOk(r) THEN 1 ELSE 0

Traced(m, kind) == [m EXCEPT !.trace = Append(@, kind)]

RECURSIVE RunSteps(_, _, _, _)
\* The statements from the first of `steps` on.  ret is [paused, residual, acc]:
\* a `?` on a Pause returns at once with the residual, the rest is not run.
RunSteps(m, steps, answers, acc) ==
    IF m.fault THEN Ret(m, Fail)
    ELSE IF Len(steps) = 0 THEN Ret(m, [paused |-> FALSE, acc |-> acc])
    ELSE IF Head(steps) = "print" THEN
        RunSteps(mprint(Traced(m, "print"), <<120>>), Tail(steps), Tail(answers), acc)
    ELSE IF Head(steps) = "request" THEN
        LET after(r) ==
                IF r.m.fault THEN Ret(r.m, Fail)
                ELSE RunSteps(r.m, Tail(steps), Tail(answers), acc + Gain(r.ret))
        IN  after(request(Traced(m, "request"),
                          RequestBuilder_new(RequestUrl, StrGet), Head(answers).bytes))
    ELSE IF Head(steps) = "pause" THEN
        LET after(r) ==
                IF r.m.fault THEN Ret(r.m, Fail)
                ELSE IF branch(r.ret).tag = "Break"
                    THEN Ret(r.m, [paused |-> TRUE, residual |-> branch(r.ret).residual])
                ELSE RunSteps(r.m, Tail(steps), Tail(answers), acc)
        IN  after(pause(Traced(m, "pause"), PauseFor, Head(answers).ret))
    ELSE \* prompt
        LET after(r) ==
                IF r.m.fault THEN Ret(r.m, Fail)
                ELSE IF branch(r.ret).tag = "Break"
                    THEN Ret(r.m, [paused |-> TRUE, residual |-> branch(r.ret).residual])
                ELSE RunSteps(r.m, Tail(steps), Tail(answers),
                              acc + Gain(branch(r.ret).output))
        IN  after(prompt(Traced(m, "prompt"), TUInt, Head(answers).bytes))

\* The function is declared to return Resumable<..>.
ReturnsResumable(item) ==
    /\ item.sig.output.ret = "type"
    /\ item.sig.output.ty.form = "path"
    /\ item.sig.output.ty.seg = IdResumable

\* A user function that takes up where its last call paused.
CallUserResumed(m, item, args, answers) ==
    LET done == IF Len(runs) > 0 /\ runs[Len(runs)].paused
                THEN Len(runs[Len(runs)].trace) - 1 ELSE 0
        returns(r) ==
            IF r.m.fault THEN Ret(r.m, Fail)
            ELSE IF ~ReturnsResumable(item) THEN Ret(r.m, VInt(r.ret.acc))
            ELSE IF r.ret.paused THEN Ret(r.m, from_residual(r.ret.residual))
            ELSE Ret(r.m, from_output(VInt(r.ret.acc)))
    IN  returns(RunSteps(Called(m, "user", args),
                         SubSeq(item.block, done + 1, Len(item.block)),
                         SubSeq(answers, done + 1, Len(item.block)), 1 + SumInts(args)))

\* A call of the user's function with args: ret is what it returns.
CallUser(m, item, args, answers) ==
    LET returns(r) ==
            IF r.m.fault THEN Ret(r.m, Fail)
            ELSE IF ~ReturnsResumable(item) THEN Ret(r.m, VInt(r.ret.acc))
            ELSE IF r.ret.paused THEN Ret(r.m, from_residual(r.ret.residual))
            ELSE Ret(r.m, from_output(VInt(r.ret.acc)))
    IN  returns(RunSteps(Called(m, "user", args), item.block, answers, 1 + SumInts(args)))

(***************************************************************************)
(* The generated entry points.                                             *)
(***************************************************************************)
\* The generated input struct as a type for from_value.
EnvelopeType(in_struct) ==
    TNamed([i \in 1..Len(in_struct.fields) |-> in_struct.fields[i].name],
           [i \in 1..Len(in_struct.fields) |-> RuntimeType(in_struct.fields[i].ty)])

\* input.name
FieldOf(input, in_struct, name) ==
    input.fields[CHOOSE i \in 1..Len(in_struct.fields) : in_struct.fields[i].name = name]

\* The generated output struct of function.rs: a newtype around the output.
UserFnOut(output) == [newtype |-> output]

\* The statement the entry point is at: m.steps lists them as they start.
Did(m, step) == [m EXCEPT !.steps = Append(@, step)]

\* An entry point that answers an input it cannot read with a null output
\* instead of panicking.
user_fn_lenient(m, gen, offset, size, answers) ==
    LET withBlock(b) == vec_parts_to_host(Did(b.m, "vec_parts_to_host"), b.ret[1], b.ret[2])
        withOutputJson(m2, json) == withBlock(value_to_host(Did(m2, "value_to_host"), json))
        withOutput(o) ==
            IF o.m.fault THEN Ret(o.m, 0)
            ELSE IF gen.kind = "fn"
                THEN withOutputJson(Did(Did(o.m, "UserFnOut"), "to_value"),
                                    to_value(UserFnOut(o.ret)))
            ELSE withOutputJson(Did(o.m, "to_value"), to_value(o.ret))
        withInput(m1, i) ==
            IF ~i.ok THEN withOutputJson(m1, JNull)
            ELSE withOutput(CallUser(Did(m1, "call"), gen.item,
                                     [n \in 1..Len(gen.call_args) |->
                                         FieldOf(i.v, gen.in_struct, gen.call_args[n])],
                                     answers))
        withJson(j) ==
            IF j.m.fault THEN Ret(j.m, 0)
            ELSE withInput(Did(j.m, "from_value"),
                           from_value(j.ret.v, EnvelopeType(gen.in_struct)))
    IN  withJson(value_from_host(Did(m, "value_from_host"), offset, size, TJson))

\* An entry point that puts every result in the output struct, the
\* workflow's too.
user_fn_wrapping(m, gen, offset, size, answers) ==
    LET withBlock(b) == vec_parts_to_host(Did(b.m, "vec_parts_to_host"), b.ret[1], b.ret[2])
        withOutputJson(m2, json) == withBlock(value_to_host(Did(m2, "value_to_host"), json))
        withOutput(o) ==
            IF o.m.fault THEN Ret(o.m, 0)
            ELSE withOutputJson(Did(Did(o.m, "UserFnOut"), "to_value"),
                                to_value(UserFnOut(o.ret)))
        withInput(m1, i) ==
            IF ~i.ok THEN Ret(Panic(m1, {}), 0)
            ELSE withOutput(CallUser(Did(m1, "call"), gen.item,
                                     [n \in 1..Len(gen.call_args) |->
                                         FieldOf(i.v, gen.in_struct, gen.call_args[n])],
                                     answers))
        withJson(j) ==
            IF j.m.fault THEN Ret(j.m, 0)
            ELSE withInput(Did(j.m, "from_value"),
                           from_value(j.ret.v, EnvelopeType(gen.in_struct)))
    IN  withJson(value_from_host(Did(m, "value_from_host"), offset, size, TJson))

\* user_fn__NAME / user_workflow__NAME (offset, size) -> u32.
\* ret is the address of the packed block descriptor.  function.rs puts
\* the result in the output struct before to_value; workflow.rs passes the
\* Resumable the workflow returned to to_value as it is.
user_fn(m, gen, offset, size, answers) ==
    LET withBlock(b) == vec_parts_to_host(Did(b.m, "vec_parts_to_host"), b.ret[1], b.ret[2])
        withOutputJson(m2, json) == withBlock(value_to_host(Did(m2, "value_to_host"), json))
        withOutput(o) ==
            IF o.m.fault THEN Ret(o.m, 0)
            ELSE IF gen.kind = "fn"
                THEN withOutputJson(Did(Did(o.m, "UserFnOut"), "to_value"),
                                    to_value(UserFnOut(o.ret)))
            ELSE withOutputJson(Did(o.m, "to_value"), to_value(o.ret))
        withInput(m1, i) ==
            IF ~i.ok THEN Ret(Panic(m1, {}), 0)
            ELSE withOutput(CallUser(Did(m1, "call"), gen.item,
                                     [n \in 1..Len(gen.call_args) |->
                                         FieldOf(i.v, gen.in_struct, gen.call_args[n])],
                                     answers))
        withJson(j) ==
            IF j.m.fault THEN Ret(j.m, 0)
            ELSE withInput(Did(j.m, "from_value"),
                           from_value(j.ret.v, EnvelopeType(gen.in_struct)))
    IN  withJson(value_from_host(Did(m, "value_from_host"), offset, size, TJson))

\* lib.rs FnInfo
FnInfo(description, in_schema, out_schema) ==
    VStruct(<<VStr(description), in_schema, out_schema>>)

TFnInfo == TStruct(<<TStr, TJson, TJson>>)

\* An introspection entry point that gives the two schemas in each
\* other's place.
user_fn_info_swapped(m, gen) ==
    LET withBlock(b) ==
            IF b.m.fault THEN Ret(b.m, 0)
            ELSE vec_parts_to_host(b.m, b.ret[1], b.ret[2])
    IN  withBlock(value_to_host(m, FnInfo(gen.help_str,
                                          SchemaFor(RuntimeType(gen.out_struct.of)),
                                          SchemaFor(EnvelopeType(gen.in_struct)))))

\* user_fn_info__NAME / user_workflow_info__NAME () -> u32
user_fn_info(m, gen) ==
    LET withBlock(b) ==
            IF b.m.fault THEN Ret(b.m, 0)
            ELSE vec_parts_to_host(b.m, b.ret[1], b.ret[2])
    IN  withBlock(value_to_host(m, FnInfo(gen.help_str,
                                          SchemaFor(EnvelopeType(gen.in_struct)),
                                          SchemaFor(RuntimeType(gen.out_struct.of)))))

(***************************************************************************)
(* The guest as a call finds it, and the state after construction.         *)
(***************************************************************************)
Machine(slack, junk, traps) ==
    [heap |-> heap, owned |-> guestOwns, sent |-> {}, fault |-> FALSE,
     ub |-> FALSE, unwinds |-> unwinds, slack |-> slack, junk |-> junk,
     traps |-> traps, calls |-> << >>, trace |-> << >>, steps |-> << >>,
     freed |-> << >>]

Slacks == {0, 1}
\* What a read of a byte that was never written may give.
JunkBytes == {0, 192, 255}

MemInit ==
    /\ heap = EmptyHeap
    /\ guestOwns = {}
    /\ hostHeld = {}
    /\ faulted = FALSE
    /\ ubSeen = FALSE
    /\ hostOK = TRUE
    /\ unwinds \in BOOLEAN
    /\ invocations = 0
    /\ hostFresh = {}

CodecIdle ==
    /\ cval = [ty |-> TBool, v |-> VBool(FALSE)]
    /\ cblock = <<0, 0>>
    /\ cread = Fail
    /\ cpc = "idle"

(***************************************************************************)
(* The values the codec is run on.                                         *)
(***************************************************************************)
SeqsOf(S) == UNION {[1..len -> S] : len \in 0..MaxSeqLen}
UIntVals == {0, 1, 127, 128, 255, 256, 65535, 65536}
LongStr  == [i \in 1..32 |-> 120]
StrVals  == {<< >>, <<97>>, <<97, 98>>, LongStr}
JsonAtoms == {JNull, JBool(TRUE), JBool(FALSE), JNum(0), JNum(300), JStr(<<97>>)}
JsonVals ==
    JsonAtoms
    \cup {JArr(q) : q \in SeqsOf({JNull, JNum(1)})}
    \cup {JObj(f) : f \in UNION {[K -> {JNull, JStr(<<98>>)}] :
                                    K \in SUBSET {<<97>>, <<98>>}}}

RequestBuilders ==
    LET base == {RequestBuilder_new(<<117>>, StrGet), RequestBuilder_new(<<117>>, StrPost)}
    IN  base
        \cup {with_json(rb, j) : rb \in base, j \in {JNull, JNum(1), JObj(<< >>)}}
        \cup {with_bearer_auth(rb, <<116>>) : rb \in base}
        \cup {set_basic_auth(rb, <<97>>, <<98>>) : rb \in base}
        \cup {set_form_key(set_form_key(rb, <<97>>, <<98>>), <<99>>, <<100>>) : rb \in base}

Typed(ty, S) == {[ty |-> ty, v |-> v] : v \in S}

CodecCases ==
    Typed(TBool, {VBool(TRUE), VBool(FALSE)})
    \cup Typed(TUInt, {VInt(i) : i \in UIntVals})
    \cup Typed(TStr, {VStr(q) : q \in StrVals})
    \cup Typed(TOpt(TUInt), {VNone} \cup {VSome(VInt(i)) : i \in {0, 192}})
    \cup Typed(TOpt(TOpt(TUInt)), {VNone, VSome(VNone), VSome(VSome(VInt(7)))})
    \cup Typed(TOpt(TJson), {VNone, VSome(JNull), VSome(JNum(1))})
    \cup Typed(TSeq(TUInt), {VSeq(q) : q \in SeqsOf({VInt(0), VInt(200)})})
    \cup Typed(TSeq(TOpt(TBool)), {VSeq(q) : q \in SeqsOf({VNone, VSome(VBool(TRUE))})})
    \cup Typed(TJson, JsonVals)
    \cup Typed(TRequestBuilder, RequestBuilders)
    \cup Typed(THostRequestOut,
               {VVariant(StrOk, VStruct(<<VInt(200), VSeq(<< >>), VStr(<<98>>)>>)),
                VVariant(StrErr, VStr(<<101>>))})
    \cup Typed(TPromptOut,
               {VUnit(StrPause), VVariant(StrReady, VVariant(StrOk, JNum(1))),
                VVariant(StrReady, VVariant(StrErr, VStr(<<101>>)))})

(***************************************************************************)
(* SpecCodec: a value goes out through value_to_host and the pair it       *)
(* returned goes back in through value_from_host.                          *)
(***************************************************************************)
NoItem == [ok |-> FALSE, none |-> TRUE]
NoCall == [fn |-> "none"]

SynthIdle ==
    /\ macroIn = NoItem
    /\ macroOut = NoItem
    /\ runs = << >>
    /\ exported = << >>

CodecInit ==
    /\ MemInit
    /\ SynthIdle
    /\ call = NoCall
    /\ cval \in CodecCases
    /\ cblock = <<0, 0>>
    /\ cread = Fail
    /\ cpc = "start"

CodecToHost ==
    /\ cpc = "start"
    /\ \E slack \in Slacks :
          LET r == value_to_host(Machine(slack, 0, FALSE), cval.v) IN
          /\ heap' = r.m.heap
          /\ cblock' = r.ret
    /\ cpc' = "sent"
    /\ UNCHANGED <<guestOwns, hostHeld, faulted, ubSeen, hostOK, unwinds, invocations,
                   hostFresh, cval, cread, synthVars, call>>

CodecFromHost ==
    /\ cpc = "sent"
    /\ \E junk \in JunkBytes :
          LET r == value_from_host(Machine(0, junk, FALSE), cblock[1], cblock[2], cval.ty) IN
          /\ heap' = r.m.heap
          /\ guestOwns' = r.m.owned
          /\ faulted' = r.m.fault
          /\ ubSeen' = r.m.ub
          /\ cread' = r.ret
    /\ cpc' = "done"
    /\ UNCHANGED <<hostHeld, hostOK, unwinds, invocations, hostFresh, cval,
                   cblock, synthVars, call>>

\* The words a descriptor is made of: u32 values as far as the checker's
\* integers reach (2^31 - 1), among them 0x01020304.
Words == {0, 1, 255, 256, 65536, 16909060, 2147483647}

\* vec_parts_to_host(o, s)
CodecPack ==
    /\ cpc = "start"
    /\ \E o \in Words, s \in Words :
          \E r \in {vec_parts_to_host(Machine(0, 0, FALSE), o, s)} :
              /\ heap' = r.m.heap
              /\ cblock' = <<o, s>>
              /\ cread' = [record |-> r.ret]
    /\ cpc' = "packed"
    /\ UNCHANGED <<guestOwns, hostHeld, faulted, ubSeen, hostOK, unwinds, invocations,
                   hostFresh, cval, synthVars, call>>

\* vec_parts_from_host of the address vec_parts_to_host returned.
CodecUnpack ==
    /\ cpc = "packed"
    /\ \E r \in {vec_parts_from_host(Machine(0, 0, FALSE), cread.record)} :
          /\ heap' = r.m.heap
          /\ guestOwns' = r.m.owned
          /\ faulted' = r.m.fault
          /\ ubSeen' = r.m.ub
          /\ cread' = [record |-> cread.record, parts |-> r.ret]
    /\ cpc' = "unpacked"
    /\ UNCHANGED <<hostHeld, hostOK, unwinds, invocations, hostFresh, cval,
                   cblock, synthVars, call>>

\* value_from_host::<T> of the pair value_to_host returned, for a T that is
\* not the type of the value that was encoded.
OtherTypes == {TBool, TStr, TSeq(TUInt)}
CodecFromHostAs ==
    /\ cpc = "sent"
    /\ \E junk \in JunkBytes, ty \in OtherTypes \ {cval.ty} :
          \E r \in {value_from_host(Machine(0, junk, FALSE), cblock[1], cblock[2], ty)} :
              /\ heap' = r.m.heap
              /\ guestOwns' = r.m.owned
              /\ faulted' = r.m.fault
              /\ ubSeen' = r.m.ub
              /\ cread' = r.ret
    /\ cpc' = "misread"
    /\ UNCHANGED <<hostHeld, hostOK, unwinds, invocations, hostFresh, cval,
                   cblock, synthVars, call>>

CodecNext ==
    \/ CodecToHost \/ CodecFromHost \/ CodecFromHostAs
    \/ CodecPack \/ CodecUnpack
SpecCodec == CodecInit /\ [][CodecNext]_vars

\* C4 (as claimed): value_from_host of the pair value_to_host(v) returned
\* yields v, for every supported v.
RoundTripAll == cpc = "done" => (cread.ok /\ cread.v = cval.v)


(***************************************************************************)
(* The host's side of a run.                                               *)
(***************************************************************************)
IdA == <<97>>
IdB == <<98>>
IdF == <<102>>
IdW == <<119>>
\* The doc comments of the item: "adds" and "one", a line each.
DocText == << <<97, 100, 100, 115>>, <<111, 110, 101>> >>

\* fn f(a: String, b: u32) -> u32 { mprint(..); request(..); .. }
FnItem ==
    ItemFn(IdF, <<IdentArg(IdA, SynLeaf(IdString)), IdentArg(IdB, SynLeaf(IdU32))>>,
           ReturnType(SynLeaf(IdU32)), DocText, <<"print", "request">>)
\* fn w(b: u32) -> Resumable<u32> { mprint(..); pause(..)?; prompt()?; .. }
WfItem ==
    ItemFn(IdW, <<IdentArg(IdB, SynLeaf(IdU32))>>,
           ReturnType(SynGeneric(IdResumable, <<SynLeaf(IdU32)>>)), DocText,
           <<"print", "pause", "prompt">>)

\* Bytes that are no MessagePack value (0xc1 is never used).
Corrupt == <<193>>
HostResponse == VStruct(<<VInt(200), VSeq(<< >>), VStr(<<98>>)>>)
HostError == VStr(<<101>>)

Answer(ret, bytes) == [ret |-> ret, bytes |-> bytes]
NoAnswer == Answer(0, << >>)
\* What the host may answer to one step.
AnswerSet(step) ==
    IF step = "print" THEN {NoAnswer}
    ELSE IF step = "request"
        THEN {Answer(0, bs) : bs \in {Encode(ROk(HostResponse)), Encode(RErr(HostError)),
                                      Corrupt}}
    ELSE IF step = "pause" THEN {Answer(r, << >>) : r \in {0, 1}}
    ELSE {Answer(0, bs) : bs \in {Encode(Pause), Encode(Ready(RErr(HostError))),
                                  Encode(Ready(ROk(JNum(5)))), Corrupt}}
StepKinds == {"print", "request", "pause", "prompt"}
AnswersFor(block) ==
    {q \in [1..Len(block) -> UNION {AnswerSet(k) : k \in StepKinds}] :
        \A i \in 1..Len(block) : q[i] \in AnswerSet(block[i])}

\* The JSON the host passes for the i-th parameter.
ArgJson(ty, i) ==
    IF RuntimeType(ty) = TUInt THEN JNum(i)
    ELSE IF RuntimeType(ty) = TStr THEN JStr(<<96 + i>>)
    ELSE JNull
\* The input as an object keyed by parameter name, and as an array.
InputObject(g) ==
    JObj([k \in {g.in_struct.fields[i].name : i \in 1..Len(g.in_struct.fields)} |->
            LET i == CHOOSE i \in 1..Len(g.in_struct.fields) :
                        g.in_struct.fields[i].name = k
            IN  ArgJson(g.in_struct.fields[i].ty, i)])
InputArray(g) ==
    JArr([i \in 1..Len(g.in_struct.fields) |-> ArgJson(g.in_struct.fields[i].ty, i)])
\* The encoding of the input object cut short by a byte.
Truncated(g) ==
    IF Len(Encode(InputObject(g))) > 1
    THEN SubSeq(Encode(InputObject(g)), 1, Len(Encode(InputObject(g))) - 1)
    ELSE Corrupt
\* What the host may write into an input block.
HostInputs(g) ==
    {Encode(InputObject(g)), Encode(InputArray(g)), Encode(JNum(1)), Corrupt, Truncated(g)}

\* Slots a call of the entry point may need at once: one for each block it
\* sends to the host, two for a response in flight or for its result.
SlotsFor(block) == Cardinality({i \in 1..Len(block) : block[i] # "pause"}) + 2
Room(n) == Cardinality(FreeSlots(heap)) >= n
\* The host keeps memory free for a whole invocation before it calls the guest:
\* the input block and what the entry point needs.
CallRoom == SlotsFor(macroIn.block) + 1

\* The state of the guest after a call.
After(m) ==
    /\ heap' = m.heap
    /\ guestOwns' = m.owned
    /\ faulted' = (faulted \/ m.fault)
    /\ ubSeen' = (ubSeen \/ m.ub)

\* The descriptors the host has after an entry point returned r: those it
\* was called with, the record, and the payload the record describes.
Unpacked(h, rec) ==
    Handle(from_le_bytes(SubSeq(h[rec].bytes, 1, 4)), from_le_bytes(SubSeq(h[rec].bytes, 5, 8)))
HostGets(r) ==
    r.m.sent \cup (IF r.m.fault THEN {} ELSE {Handle(r.ret, 8), Unpacked(r.m.heap, r.ret)})
\* The output the host decodes from the payload.
HostReads(r) ==
    IF r.m.fault THEN Fail
    ELSE from_slice(r.m.heap[Unpacked(r.m.heap, r.ret).addr].bytes, TJson)

\* A run is followed up to the host's first break of the protocol.
\* The host obtains a block from wasm_alloc and writes an input into it.
HostWrites(inputs) ==
    /\ hostOK /\ ~faulted
    /\ macroOut.ok
    /\ hostFresh = {}
    /\ Room(CallRoom)
    /\ \E bs \in inputs :
          \E r \in {wasm_alloc(Machine(0, 0, TRUE), Len(bs))} :
              /\ After(HostWrite(r.m, r.ret, bs))
              /\ hostHeld' = hostHeld \cup {Handle(r.ret, Len(bs))}
              /\ hostFresh' = {Handle(r.ret, Len(bs))}
    /\ UNCHANGED <<hostOK, unwinds, invocations, codecVars, synthVars, call>>

HostAlloc == HostWrites(HostInputs(macroOut))

\* The host invokes the entry point with an input block.
Invoke ==
    /\ hostOK /\ ~faulted
    /\ invocations < MaxInvocations
    /\ Room(SlotsFor(macroIn.block))
    /\ \E h \in hostFresh, slack \in Slacks, traps \in BOOLEAN,
          answers \in AnswersFor(macroIn.block) :
          \E r \in {user_fn(Machine(slack, 0, traps), macroOut, h.addr, h.size, answers)} :
              /\ After(r.m)
              /\ hostHeld' = (hostHeld \ {h}) \cup HostGets(r)
              /\ hostFresh' = hostFresh \ {h}
    /\ invocations' = invocations + 1
    /\ UNCHANGED <<hostOK, unwinds, codecVars, synthVars, call>>

\* The host calls the introspection entry point.
InvokeInfo ==
    /\ hostOK /\ ~faulted
    /\ macroOut.ok
    /\ invocations < MaxInvocations
    /\ Room(CallRoom)
    /\ \E slack \in Slacks :
          \E r \in {user_fn_info(Machine(slack, 0, TRUE), macroOut)} :
              /\ After(r.m)
              /\ hostHeld' = hostHeld \cup HostGets(r)
    /\ invocations' = invocations + 1
    /\ UNCHANGED <<hostOK, unwinds, hostFresh, codecVars, synthVars, call>>

\* The host releases a block it holds.
HostUnforget ==
    /\ hostOK
    /\ \E h \in hostHeld, traps \in BOOLEAN :
          /\ After(unforget(Machine(0, 0, traps), h.addr, h.size))
          /\ hostHeld' = hostHeld \ {h}
          /\ hostFresh' = hostFresh \ {h}
    /\ UNCHANGED <<hostOK, unwinds, invocations, codecVars, synthVars, call>>

\* The host breaks the protocol: it releases a descriptor it does not hold
\* (one it has released or passed to the guest before, whose address may
\* meanwhile be free or in use again).
HostUnforgetStale ==
    /\ hostOK
    /\ \E a \in Addr, traps \in BOOLEAN :
          \E sz \in {8, heap[a].cap} :
              /\ Handle(a, sz) \notin hostHeld
              /\ After(unforget(Machine(0, 0, traps), a, sz))
    /\ hostOK' = FALSE
    /\ UNCHANGED <<hostHeld, unwinds, invocations, hostFresh, codecVars, synthVars, call>>

Init ==
    /\ MemInit
    /\ CodecIdle
    /\ macroIn \in {FnItem, WfItem}
    /\ macroOut = (IF macroIn = FnItem THEN middle_fn_inner(macroIn)
                   ELSE middle_workflow_inner(macroIn))
    /\ runs = << >>
    /\ exported = << >>
    /\ call = NoCall

Next ==
    \/ HostAlloc
    \/ Invoke
    \/ InvokeInfo
    \/ HostUnforget
    \/ HostUnforgetStale

Spec == Init /\ [][Next]_vars

\* Every block is owned by exactly one side.
SingleOwner ==
    /\ \A a \in Outstanding(heap) :
          (a \in guestOwns) # (\E h \in hostHeld : h.addr = a)
    /\ \A h1, h2 \in hostHeld : h1.addr = h2.addr => h1 = h2
    /\ \A h \in hostHeld : heap[h.addr].live /\ heap[h.addr].cap = h.size
    /\ guestOwns \subseteq Outstanding(heap)

\* C1: while the host follows the protocol, every live block has exactly one
\* owner, the guest or the host, and no release has hit a block that was
\* released before or that another owner holds.
OwnershipInvariant == hostOK => (SingleOwner /\ ~ubSeen)
OwnershipWitness ==
    /\ hostOK /\ ~faulted
    /\ invocations = MaxInvocations
    /\ Cardinality(hostHeld) >= 3
    /\ \E a \in Addr : ~heap[a].live /\ \E h \in hostHeld : h.addr > a

\* C2: once the host has released every block it received, no block is
\* outstanding, whatever the invocations did.
ZeroOutstandingAll == (hostOK /\ hostHeld = {}) => Outstanding(heap) = {}

\* Where no call of the guest ended in a fault the count is zero: once the
\* host has released every block it received, no block is outstanding.
ZeroOutstanding == (hostOK /\ ~faulted /\ hostHeld = {}) => Outstanding(heap) = {}
ZeroOutstandingWitness ==
    /\ hostOK /\ ~faulted
    /\ hostHeld = {}
    /\ invocations = MaxInvocations
    /\ Outstanding(heap) = {}

\* C3 (as claimed): a release of a block that is not pending release is
\* told apart by the release operation itself, which stops the guest.
UnforgetDistinguishes == [][(hostOK /\ ~hostOK' /\ ~faulted) => faulted']_vars

\* C3: unforget checks nothing; what tells a release of a block that is not
\* pending is the record of the descriptors handed to the host.  Every
\* release the guest executes as undefined behaviour is a release of a
\* descriptor that is not on that record; a release of a recorded descriptor
\* takes exactly its block out of the outstanding ones; and a block the host
\* holds and has not released stays outstanding.
ReleaseLedger ==
    [][ /\ (ubSeen' /\ ~ubSeen) => ~hostOK'
        /\ hostOK' =>
              \A h \in hostHeld \cap hostHeld' :
                  heap'[h.addr].live /\ heap'[h.addr].cap = h.size
        /\ (hostOK' /\ invocations' = invocations /\ hostHeld' # hostHeld
                /\ hostHeld' \subseteq hostHeld) =>
              Outstanding(heap') = Outstanding(heap) \ {h.addr : h \in hostHeld \ hostHeld'}
      ]_vars
\* A second release went through without a word: the host released a
\* descriptor it did not hold, the guest executed it and ran on.
SilentReleaseWitness == ~hostOK /\ ubSeen /\ ~faulted /\ invocations > 0
\* Blocks the host never released are still there at the end of its calls.
LeakWitness ==
    /\ hostOK /\ invocations = MaxInvocations /\ Cardinality(hostHeld) >= 2
    /\ \A h \in hostHeld : heap[h.addr].live

(***************************************************************************)
(* SpecWorkflow: a workflow is invoked again and again; the host releases  *)
(* what it received between two invocations.                               *)
(***************************************************************************)
\* The bodies of the workflows that are run.
Bodies ==
    {<< >>,
     <<"print">>,
     <<"pause", "print">>,
     <<"print", "pause", "print">>,
     <<"print", "pause", "prompt">>,
     <<"prompt", "pause", "request">>,
     <<"request", "pause", "pause">>,
     <<"pause", "prompt", "pause">>}
WorkflowItems ==
    {ItemFn(IdW, <<IdentArg(IdB, SynLeaf(IdU32))>>,
            ReturnType(SynGeneric(IdResumable, <<SynLeaf(IdU32)>>)), DocText, body) :
        body \in Bodies}

\* What is kept of one invocation: the input, the answers the host gave, the steps
\* the body started, the arguments of the call of the user function (none
\* when it was not called), whether the call faulted, and the output as the
\* host decodes it.
RunOf(h, answers, r) ==
    [input |-> heap[h.addr].bytes,
     released |-> \E i \in 1..Len(r.m.freed) : r.m.freed[i] = h.addr,
     answers |-> SubSeq(answers, 1, Len(r.m.trace)),
     trace |-> r.m.trace,
     entered |-> \E i \in 1..Len(r.m.calls) : r.m.calls[i][1] = "user",
     args |-> IF \E i \in 1..Len(r.m.calls) : r.m.calls[i][1] = "user"
              THEN r.m.calls[CHOOSE i \in 1..Len(r.m.calls) : r.m.calls[i][1] = "user"][2]
              ELSE << >>,
     fault |-> r.m.fault,
     paused |-> ~r.m.fault /\ HostReads(r).v = JStr(StrPause),
     result |-> IF r.m.fault THEN JNull ELSE HostReads(r).v,
     steps |-> r.m.steps,
     users |-> Cardinality({i \in 1..Len(r.m.calls) : r.m.calls[i][1] = "user"}),
     gave |-> Cardinality(HostGets(r) \ r.m.sent),
     packed |-> /\ ~r.m.fault
                /\ r.ret \in Addr
                /\ r.m.heap[r.ret].live /\ r.m.heap[r.ret].cap = 8
                /\ \E a \in Addr \ {r.ret} :
                      /\ r.m.heap[a].live
                      /\ r.m.heap[a].bytes = Encode(HostReads(r).v)
                      /\ r.m.heap[r.ret].bytes =
                            to_le_bytes(a) \o to_le_bytes(r.m.heap[a].cap)]

\* Invoke, with the invocation kept in runs.
InvokeLogged ==
    /\ hostOK /\ ~faulted
    /\ macroOut.ok
    /\ invocations < MaxInvocations
    /\ Room(SlotsFor(macroIn.block))
    /\ \E h \in hostFresh, slack \in Slacks, traps \in BOOLEAN,
          answers \in AnswersFor(macroIn.block) :
          \E r \in {user_fn(Machine(slack, 0, traps), macroOut, h.addr, h.size, answers)} :
              /\ After(r.m)
              /\ hostHeld' = (hostHeld \ {h}) \cup HostGets(r)
              /\ hostFresh' = hostFresh \ {h}
              /\ runs' = Append(runs, RunOf(h, answers, r))
    /\ invocations' = invocations + 1
    /\ UNCHANGED <<hostOK, unwinds, codecVars, macroIn, macroOut, exported, call>>

\* What the host decodes from the payload of an introspection call.
HostReadsInfo(r) ==
    IF r.m.fault THEN Fail
    ELSE from_slice(r.m.heap[Unpacked(r.m.heap, r.ret).addr].bytes, TFnInfo)

\* InvokeInfo, with the call kept in call: the calls the guest made, the
\* blocks of the host it released, and the FnInfo the host reads.
InvokeInfoLogged ==
    /\ hostOK /\ ~faulted
    /\ macroOut.ok
    /\ invocations < MaxInvocations
    /\ Room(CallRoom)
    /\ \E slack \in Slacks :
          \E r \in {user_fn_info(Machine(slack, 0, TRUE), macroOut)} :
              /\ After(r.m)
              /\ hostHeld' = hostHeld \cup HostGets(r)
              /\ call' = [fn |-> "info",
                          fault |-> r.m.fault,
                          calls |-> Len(r.m.calls),
                          taken |-> {h \in hostHeld : ~r.m.heap[h.addr].live},
                          gave |-> Cardinality(HostGets(r)),
                          info |-> HostReadsInfo(r)]
    /\ invocations' = invocations + 1
    /\ UNCHANGED <<hostOK, unwinds, hostFresh, codecVars, synthVars>>

RECURSIVE UnforgetAll(_, _)
UnforgetAll(m, held) ==
    IF held = {} THEN m
    ELSE LET h == CHOOSE h \in held : TRUE IN
         UnforgetAll(unforget(m, h.addr, h.size), held \ {h})

\* The host releases, one unforget each, the blocks an invocation left it.
HostUnforgetAll ==
    /\ hostOK
    /\ hostHeld # {} /\ hostFresh = {}
    /\ After(UnforgetAll(Machine(0, 0, TRUE), hostHeld))
    /\ hostHeld' = {}
    /\ UNCHANGED <<hostOK, unwinds, invocations, hostFresh, codecVars, synthVars, call>>

WorkflowInit ==
    /\ MemInit
    /\ CodecIdle
    /\ macroIn \in WorkflowItems
    /\ macroOut = middle_workflow_inner(macroIn)
    /\ runs = << >>
    /\ exported = << >>
    /\ call = NoCall

\* The host writes a well-formed input.
HostAllocValid == HostWrites({Encode(InputObject(macroOut))})

WorkflowNext == HostAllocValid \/ InvokeLogged \/ HostUnforgetAll
SpecWorkflow == WorkflowInit /\ [][WorkflowNext]_vars

\* The step yields Pause under this answer of the host.
Yields(step, answer) ==
    \/ step = "pause" /\ answer.ret = 0
    \/ step = "prompt" /\ answer.bytes = Encode(Pause)
\* The host's answer cannot be decoded: the step faults.
Breaks(step, answer) == step \in {"request", "prompt"} /\ answer.bytes = Corrupt
\* The first step of the body that does not hand a value on (all of it if none).
Reach(block, answers) ==
    IF \E i \in 1..Len(answers) : Yields(block[i], answers[i]) \/ Breaks(block[i], answers[i])
    THEN CHOOSE i \in 1..Len(answers) :
            /\ Yields(block[i], answers[i]) \/ Breaks(block[i], answers[i])
            /\ \A j \in 1..(i - 1) :
                  ~(Yields(block[j], answers[j]) \/ Breaks(block[j], answers[j]))
    ELSE Len(block)
\* What a step that is Ready hands on, as the body counts it.
StepValue(step, answer) ==
    IF step = "request" /\ answer.bytes = Encode(ROk(HostResponse)) THEN 1
    ELSE IF step = "prompt" /\ answer.bytes = Encode(Ready(ROk(JNum(5)))) THEN 5
    ELSE 0
RECURSIVE SumValues(_, _, _)
SumValues(block, answers, n) ==
    IF n = 0 THEN 0
    ELSE StepValue(block[n], answers[n]) + SumValues(block, answers, n - 1)
\* The argument b the host passed.
ArgB(run) == IF Len(run.args) > 0 /\ Is(run.args[1], "n") THEN run.args[1].n ELSE 0

\* C5: in every invocation that returns, if some step yields Pause the
\* result is Pause and no step after the first such step is started; if
\* none does, every step is run, each Ready value is carried on, and the
\* result is Ready of the final value.
ShortCircuit ==
    \A k \in 1..Len(runs) :
        (runs[k].entered /\ ~runs[k].fault) =>
            LET block == macroIn.block
                n == Reach(block, runs[k].answers)
            IN  IF \E i \in 1..Len(runs[k].answers) : Yields(block[i], runs[k].answers[i])
                THEN /\ runs[k].result = JStr(StrPause)
                     /\ runs[k].trace = SubSeq(block, 1, n)
                ELSE /\ runs[k].trace = block
                     /\ runs[k].result =
                          JObj([key \in {StrReady} |->
                                  JNum(1 + ArgB(runs[k])
                                         + SumValues(block, runs[k].answers, Len(block)))])
ShortCircuitWitness ==
    /\ \E k \in 1..Len(runs) :
          /\ ~runs[k].fault /\ runs[k].result = JStr(StrPause)
          /\ Len(runs[k].trace) = 2 /\ Len(macroIn.block) = 3
    /\ \E k \in 1..Len(runs) :
          /\ ~runs[k].fault /\ runs[k].result # JStr(StrPause)
          /\ Len(runs[k].trace) = 3

\* C6: every invocation in which the user function is called starts the body
\* at its first step and runs it up to the step that yields Pause (or
\* faults) in this invocation, whatever earlier invocations did; so each
\* step before that point has been run once per invocation.
Executions(i) == Cardinality({k \in 1..Len(runs) : Len(runs[k].trace) >= i})
RerunFromStart ==
    /\ \A k \in 1..Len(runs) :
          runs[k].entered =>
              runs[k].trace = SubSeq(macroIn.block, 1, Reach(macroIn.block, runs[k].answers))
    /\ \A i \in 1..Len(macroIn.block) :
          (\A k \in 1..Len(runs) :
              runs[k].entered /\ i <= Reach(macroIn.block, runs[k].answers))
          => Executions(i) = Len(runs)
RerunWitness ==
    /\ Len(runs) = MaxInvocations
    /\ Len(macroIn.block) = 3 /\ macroIn.block[1] = "print"
    /\ \A k \in 1..Len(runs) :
          runs[k].entered /\ runs[k].paused /\ runs[k].trace = <<"print", "pause">>

(***************************************************************************)
(* SpecCalls: the guest calls pause, prompt, request and mprint, one call  *)
(* at a time; the host releases the block a call passed to it.             *)
(***************************************************************************)
Durations ==
    {Duration(<< >>, 0),                      \* zero
     Duration(<< >>, 999999),                 \* below one millisecond
     Duration(<< >>, 100000000),              \* 100 ms
     Duration(<<1>>, 500000000),              \* 1.5 s
     Duration(<<0, 1>>, 0),                   \* 65536 s
     Duration(<<42991, 19398, 35127, 65>>, 615999999),   \* u64::MAX ms
     Duration(<<42991, 19398, 35127, 65>>, 616000000),   \* u64::MAX ms + 1 ms
     Duration(<<65535, 65535, 65535, 65535>>, 999999999)} \* Duration::MAX
PauseReturns == {0, 1, 7, 2147483647}

PromptTypes == {TUInt, TStr, TBool, TOpt(TUInt)}
\* What the host says to a prompt: a Resumable<Result<Value, String>>, or
\* bytes that are none.
PromptSays ==
    {Pause, Ready(RErr(HostError))}
    \cup {Ready(ROk(j)) : j \in {JNum(5), JStr(<<97>>), JNull, JBool(TRUE), JArr(<< >>)}}
\* What the host says to a request: a Result<HostRequestResponse, String>,
\* or something else.
RequestSays ==
    {ROk(HostResponse),
     ROk(VStruct(<<VInt(404), VSeq(<<VStruct(<<VStr(<<97>>), VStr(<<98>>)>>)>>), VStr(<< >>)>>)),
     RErr(HostError), RErr(VStr(StrPause))}
NoValue == [corrupt |-> TRUE]

CallOf(fn, arg, says, r) ==
    [fn |-> fn, arg |-> arg, says |-> says, calls |-> r.m.calls, ret |-> r.ret,
     fault |-> r.m.fault, sent |-> Cardinality(r.m.sent), freed |-> Len(r.m.freed)]

CallGuard == hostOK /\ ~faulted /\ hostHeld = {}
CallFrame ==
    /\ UNCHANGED <<hostOK, unwinds, invocations, hostFresh, codecVars, synthVars>>

CallPause ==
    /\ CallGuard
    /\ \E d \in Durations, ret \in PauseReturns :
          \E r \in {pause(Machine(0, 0, TRUE), d, ret)} :
              /\ After(r.m)
              /\ hostHeld' = hostHeld \cup r.m.sent
              /\ call' = CallOf("pause", d, ret, r)
    /\ CallFrame

CallPrompt ==
    /\ CallGuard
    /\ \E ty \in PromptTypes, slack \in Slacks, says \in PromptSays \cup {NoValue} :
          \E r \in {prompt(Machine(slack, 0, TRUE), ty,
                           IF says = NoValue THEN Corrupt ELSE Encode(says))} :
              /\ After(r.m)
              /\ hostHeld' = hostHeld \cup r.m.sent
              /\ call' = CallOf("prompt", ty, says, r)
    /\ CallFrame

CallRequest ==
    /\ CallGuard
    /\ \E rb \in RequestBuilders, slack \in Slacks,
          says \in RequestSays \cup {Pause, NoValue} :
          \E r \in {request(Machine(slack, 0, TRUE), rb,
                            IF says = NoValue THEN Corrupt ELSE Encode(says))} :
              /\ After(r.m)
              /\ hostHeld' = hostHeld \cup r.m.sent
              /\ call' = CallOf("request", rb, says, r)
    /\ CallFrame

CallMprint ==
    /\ CallGuard
    /\ \E input \in StrVals, slack \in Slacks :
          \E m \in {mprint(Machine(slack, 0, TRUE), input)} :
              /\ After(m)
              /\ hostHeld' = hostHeld \cup m.sent
              /\ call' = CallOf("mprint", input, NoValue, Ret(m, Unit))
    /\ CallFrame

CallsInit ==
    /\ MemInit
    /\ CodecIdle
    /\ SynthIdle
    /\ call = NoCall

CallsNext == CallPause \/ CallPrompt \/ CallRequest \/ CallMprint \/ HostUnforget
SpecCalls == CallsInit /\ [][CallsNext]_vars

\* C7 (as claimed): pause calls host_pause once, with the duration in
\* milliseconds, and returns Pause exactly when the host returned 0 and
\* Ready(()) otherwise, for every duration.
PauseAsksHost ==
    call.fn = "pause" =>
        /\ ~call.fault
        /\ call.calls = <<<<"host_pause", as_millis(call.arg)>>>>
        /\ (call.ret = Pause) <=> (call.says = 0)
        /\ (call.says # 0) => call.ret = Ready(Unit)

\* C8: prompt returns Pause when the host says Pause, Ready(Err) when the
\* host says Ready(Err), Ready(Ok(value)) when the host says Ready(Ok(json))
\* and json converts to a T, and Ready(Err), without a fault, when it does not.
Conforms(json, ty) == from_value(json, ty).ok
PromptCases ==
    (call.fn = "prompt" /\ call.says # NoValue) =>
        /\ ~call.fault
        /\ IsPause(call.says) => call.ret = Pause
        /\ (~IsPause(call.says) /\ ~IsOk(call.says.of)) =>
              (~IsPause(call.ret) /\ ~IsOk(call.ret.of) /\ call.ret.of.of = call.says.of.of)
        /\ (~IsPause(call.says) /\ IsOk(call.says.of)) =>
              IF Conforms(call.says.of.of, call.arg)
              THEN call.ret = Ready(ROk(from_value(call.says.of.of, call.arg).v))
              ELSE ~IsPause(call.ret) /\ ~IsOk(call.ret.of)
PromptWitness ==
    /\ call.fn = "prompt" /\ ~call.fault
    /\ call.says = Ready(ROk(JStr(<<97>>)))
    /\ call.arg = TUInt
    /\ call.ret = Ready(RErr(DeserializeError))

\* C9: a request that returns gives exactly the Result the host's block
\* holds, Ok(response) or Err(message), and never Pause.
RequestResult ==
    (call.fn = "request" /\ ~call.fault) =>
        /\ call.says \in RequestSays
        /\ call.ret = call.says
        /\ ~IsPause(call.ret)
RequestWitness ==
    /\ call.fn = "request" /\ ~call.fault
    /\ call.says = RErr(VStr(StrPause))
    /\ call.ret = RErr(VStr(StrPause))
    /\ \E i \in 1..Len(call.calls) : call.calls[i][1] = "host_request"

(***************************************************************************)
(* SpecSynth: a function item is given to one of the two macros; what the  *)
(* macro emits, if it emits, is invoked by the host.                       *)
(***************************************************************************)
IdC == <<99>>
\* One argument of a function item.
ArgPool ==
    {IdentArg(IdA, SynLeaf(IdString)), IdentArg(IdA, SynLeaf(IdU32)),
     IdentArg(IdB, SynLeaf(IdU32)), IdentArg(IdB, SynLeaf(IdString)),
     IdentArg(IdC, SynLeaf(IdU32)),
     Receiver, TypedArg(PatTuple, SynLeaf(IdU32))}
\* The argument lists syn and the compiler let through to the macro: a
\* receiver comes first, and no name is bound twice.
ArgLists ==
    {q \in UNION {[1..n -> ArgPool] : n \in 0..MaxParams} :
        /\ \A i \in 2..Len(q) : q[i] # Receiver
        /\ \A i, j \in 1..Len(q) :
              (i # j /\ q[i].arg = "typed" /\ q[j].arg = "typed"
                     /\ q[i].pat.pat = "ident" /\ q[j].pat.pat = "ident")
              => q[i].pat.ident # q[j].pat.ident}
Outputs ==
    {ReturnDefault,
     ReturnType(SynLeaf(IdU32)),
     ReturnType(SynTuple),
     ReturnType(SynGeneric(IdResumable, <<SynLeaf(IdU32)>>)),
     ReturnType(SynLeaf(IdResumable)),
     ReturnType(SynPath(IdResumable, "paren", <<GType(SynLeaf(IdU32))>>)),
     ReturnType(SynPath(IdResumable, "angle", <<GLifetime>>)),
     ReturnType(SynGeneric(IdResumable, <<SynLeaf(IdU32), SynLeaf(IdU32)>>)),
     ReturnType(SynGeneric(IdOption, <<SynLeaf(IdU32)>>))}
Descriptors ==
    {ItemFn(IdF, q, out, DocText, <<"print">>) : q \in ArgLists, out \in Outputs}

SynthInit ==
    /\ MemInit
    /\ CodecIdle
    /\ macroIn \in Descriptors
    /\ macroOut = NoItem
    /\ runs = << >>
    /\ exported = << >>
    /\ call = NoCall

\* #[middle_fn]
SynthFn ==
    /\ macroOut = NoItem
    /\ macroOut' = middle_fn_inner(macroIn)
    /\ UNCHANGED <<memVars, codecVars, macroIn, runs, exported, call>>

\* #[middle_workflow]
SynthWorkflow ==
    /\ macroOut = NoItem
    /\ macroOut' = middle_workflow_inner(macroIn)
    /\ UNCHANGED <<memVars, codecVars, macroIn, runs, exported, call>>

SynthNext == SynthFn \/ SynthWorkflow \/ HostAlloc \/ InvokeLogged \/ HostUnforgetAll
SpecSynth == SynthInit /\ [][SynthNext]_vars

(***************************************************************************)
(* A crate with several items under the macros and symbols its author      *)
(* exports by hand.  The macros see one item at a time.                    *)
(***************************************************************************)
MaxItems == 2
IdG == <<103>>
\* info__f
IdInfoF == <<105, 110, 102, 111, 95, 95, 102>>
CrateItems ==
    {ItemFn(name, <<IdentArg(IdA, SynLeaf(IdU32))>>,
            ReturnType(SynGeneric(IdResumable, <<SynLeaf(IdU32)>>)), DocText, <<"print">>) :
        name \in {IdF, IdG, IdInfoF}}
\* user_fn__f, user_workflow_info__g, main
HandExports ==
    {<<117, 115, 101, 114, 95, 102, 110, 95, 95, 102>>,
     <<117, 115, 101, 114, 95, 119, 111, 114, 107, 102, 108, 111, 119, 95,
       105, 110, 102, 111, 95, 95, 103>>,
     <<109, 97, 105, 110>>}

Symbol(by, of, role, symbol) == [by |-> by, of |-> of, role |-> role, symbol |-> symbol]

\* The #[no_mangle] functions of an expansion.
SymbolsOf(gen) ==
    IF ~gen.ok THEN << >>
    ELSE <<Symbol(gen.kind, gen.fn_name, "invoke", gen.user_fn_name),
           Symbol(gen.kind, gen.fn_name, "info", gen.introspect_fn_name)>>

CrateInit ==
    /\ MemInit
    /\ CodecIdle
    /\ macroIn \in CrateItems
    /\ macroOut = NoItem
    /\ runs = << >>
    /\ exported = << >>
    /\ call = NoCall

\* The compiler expands #[middle_fn] on the next item of the crate.
ExpandFn ==
    /\ Len(exported) < 2 * MaxItems
    /\ \E item \in CrateItems :
          /\ macroIn' = item
          /\ macroOut' = middle_fn_inner(item)
          /\ exported' = exported \o SymbolsOf(middle_fn_inner(item))
    /\ UNCHANGED <<memVars, codecVars, runs, call>>

\* The compiler expands #[middle_workflow] on the next item of the crate.
ExpandWorkflow ==
    /\ Len(exported) < 2 * MaxItems
    /\ \E item \in CrateItems :
          /\ macroIn' = item
          /\ macroOut' = middle_workflow_inner(item)
          /\ exported' = exported \o SymbolsOf(middle_workflow_inner(item))
    /\ UNCHANGED <<memVars, codecVars, runs, call>>

\* The next item of the crate is a #[no_mangle] function of the author's.
ExportByHand ==
    /\ Len(exported) < 2 * MaxItems
    /\ \E name \in HandExports :
          exported' = Append(exported, Symbol("user", name, "user", name))
    /\ UNCHANGED <<memVars, codecVars, macroIn, macroOut, runs, call>>

CrateNext == ExpandFn \/ ExpandWorkflow \/ ExportByHand
SpecCrate == CrateInit /\ [][CrateNext]_vars

(***************************************************************************)
(* SpecResume: a host that invokes a workflow of pauses again and again,   *)
(* each time with a new input block, and releases what it received.  The  *)
(* host keeps a timer for each pause of the body (call.elapsed) and        *)
(* answers host_pause from it; the timers are the host's own business.     *)
(***************************************************************************)
PauseBodies == {<<"pause">>, <<"print", "pause">>, <<"pause", "print", "pause">>}
PauseItems ==
    {ItemFn(IdW, <<IdentArg(IdB, SynLeaf(IdU32))>>,
            ReturnType(SynGeneric(IdResumable, <<SynLeaf(IdU32)>>)), DocText, body) :
        body \in PauseBodies}
PausesOf(block) == {i \in 1..Len(block) : block[i] = "pause"}
HostTimers(elapsed) == [fn |-> "host", elapsed |-> elapsed]
\* What the host answers to the steps of the body, its timers as they are.
TimerAnswers(block, elapsed) ==
    [i \in 1..Len(block) |->
        IF block[i] = "pause" THEN Answer(IF i \in elapsed THEN 1 ELSE 0, << >>)
        ELSE NoAnswer]

ResumeInit ==
    /\ MemInit
    /\ CodecIdle
    /\ macroIn \in PauseItems
    /\ macroOut = middle_workflow_inner(macroIn)
    /\ runs = << >>
    /\ exported = << >>
    /\ call = HostTimers({})

\* A timer of the host elapses, or the host starts it anew.
HostTimer ==
    /\ \E i \in PausesOf(macroIn.block) :
          call' = HostTimers(IF i \in call.elapsed THEN call.elapsed \ {i}
                             ELSE call.elapsed \cup {i})
    /\ UNCHANGED <<memVars, codecVars, synthVars>>

\* The host invokes the workflow's entry point once more; runs keeps the
\* last invocation.
ReInvoke ==
    /\ hostOK /\ ~faulted
    /\ Room(SlotsFor(macroIn.block))
    /\ \E h \in hostFresh, slack \in Slacks :
          \E answers \in {TimerAnswers(macroIn.block, call.elapsed)} :
              \E r \in {user_fn(Machine(slack, 0, TRUE), macroOut, h.addr, h.size, answers)} :
                  /\ After(r.m)
                  /\ hostHeld' = (hostHeld \ {h}) \cup HostGets(r)
                  /\ hostFresh' = hostFresh \ {h}
                  /\ runs' = <<RunOf(h, answers, r)>>
    /\ invocations' = IF invocations < MaxInvocations THEN invocations + 1 ELSE invocations
    /\ UNCHANGED <<hostOK, unwinds, codecVars, macroIn, macroOut, exported, call>>

ResumeNext == HostAllocValid \/ ReInvoke \/ HostUnforgetAll \/ HostTimer
\* ReInvoke is enabled exactly when Invokable holds and HostUnforgetAll
\* exactly when Releasable holds, and a step of either makes its guard
\* false (hostFresh has one block at most; hostHeld is emptied).
Invokable == hostOK /\ ~faulted /\ hostFresh # {} /\ Room(SlotsFor(macroIn.block))
Releasable == hostOK /\ hostHeld # {} /\ hostFresh = {}
\* The host keeps going: it allocates, invokes and releases whenever it
\* can.  Weak fairness of ReInvoke and of HostUnforgetAll, which is
\* []<>~ENABLED A \/ []<><<A>>_vars, is written through their guards:
\* with the above it is []<>~Invokable and []<>~Releasable.  Nothing is
\* asked of the host's timers.
SpecResume ==
    /\ ResumeInit /\ [][ResumeNext]_vars
    /\ WF_vars(HostAllocValid)
    /\ []<>~Invokable
    /\ []<>~Releasable

\* The host of an expanded item asking what the item is.
InfoNext == SynthFn \/ SynthWorkflow \/ InvokeInfoLogged \/ HostUnforgetAll
SpecInfo == SynthInit /\ [][InfoNext]_vars

\* The value the host passes for the i-th parameter, as the user function
\* is to receive it.
ExpectedArg(ty, i) == IF ty = SynLeaf(IdU32) THEN VInt(i) ELSE VStr(<<96 + i>>)

\* C10: what a macro emits for a function item with parameters p1..pn has
\* an input struct with exactly the fields p1..pn, with their types, in
\* that order, and its entry point calls the user function with the
\* values of p1..pn in that order.
EnvelopeBindsInOrder ==
    macroOut.ok =>
        /\ macroOut.in_struct.fields =
              [i \in 1..Len(macroIn.sig.inputs) |->
                  [name |-> macroIn.sig.inputs[i].pat.ident,
                   ty |-> macroIn.sig.inputs[i].ty]]
        /\ \A k \in 1..Len(runs) :
              runs[k].entered =>
                  runs[k].args = [i \in 1..Len(macroIn.sig.inputs) |->
                                     ExpectedArg(macroIn.sig.inputs[i].ty, i)]
EnvelopeWitness ==
    /\ macroOut.ok
    /\ macroIn.sig.inputs = <<IdentArg(IdA, SynLeaf(IdString)), IdentArg(IdB, SynLeaf(IdU32))>>
    /\ \E k \in 1..Len(runs) :
          /\ runs[k].entered /\ ~runs[k].fault
          /\ runs[k].input = Encode(InputArray(macroOut))
          /\ runs[k].args = <<VStr(<<97>>), VInt(2)>>

\* What a rejected descriptor leaves: the panic, no generated item, and so
\* nothing the host could call.
NothingEmitted ==
    /\ ~macroOut.ok
    /\ DOMAIN macroOut = {"ok", "panic"}
    /\ runs = << >>
    /\ exported = << >>
    /\ hostHeld = {}
HasReceiver(item) ==
    \E i \in 1..Len(item.sig.inputs) : item.sig.inputs[i].arg = "receiver"
HasPattern(item) ==
    \E i \in 1..Len(item.sig.inputs) :
        item.sig.inputs[i].arg = "typed" /\ item.sig.inputs[i].pat.pat # "ident"

\* C11: a descriptor with a receiver, or with a parameter whose pattern is
\* not a plain identifier, is rejected by either macro, and nothing is
\* emitted for it.
RejectsBadParams ==
    (macroOut # NoItem /\ (HasReceiver(macroIn) \/ HasPattern(macroIn))) => NothingEmitted
RejectsBadParamsWitness ==
    /\ macroOut # NoItem
    /\ HasPattern(macroIn) /\ ~HasReceiver(macroIn)
    /\ Len(macroIn.sig.inputs) = 2
    /\ macroIn.sig.output = ReturnType(SynGeneric(IdResumable, <<SynLeaf(IdU32)>>))
    /\ macroOut = Rejected("unexpected parameter in function type signature")

\* C12: a descriptor without an explicit return type is rejected by either
\* macro, and nothing is emitted for it.
RejectsNoReturnType ==
    (macroOut # NoItem /\ macroIn.sig.output = ReturnDefault) => NothingEmitted
RejectsNoReturnTypeWitness ==
    /\ macroOut # NoItem
    /\ macroIn.sig.output = ReturnDefault
    /\ ~HasReceiver(macroIn) /\ ~HasPattern(macroIn)
    /\ macroOut = Rejected("exported functions must have an explicit return type")

\* The return type is Resumable<T>: a path ending in Resumable with one
\* type argument in angle brackets.
IsResumableOf(output) ==
    /\ output.ret = "type"
    /\ output.ty.form = "path"
    /\ output.ty.seg = IdResumable
    /\ output.ty.bracket = "angle"
    /\ Len(output.ty.gargs) = 1
    /\ output.ty.gargs[1].g = "type"

\* C20: #[middle_workflow] accepts a descriptor only when its return type
\* is Resumable<T>, rejects every other return type, and the output struct
\* it emits wraps T.
WorkflowReturnType ==
    [][SynthWorkflow =>
          /\ macroOut'.ok => IsResumableOf(macroIn.sig.output)
          /\ ~IsResumableOf(macroIn.sig.output) =>
                (~macroOut'.ok /\ DOMAIN macroOut' = {"ok", "panic"})
          /\ macroOut'.ok =>
                /\ macroOut'.out_struct.of = macroIn.sig.output.ty.gargs[1].ty
                /\ macroOut'.out_struct.of # macroIn.sig.output.ty
      ]_vars
WorkflowReturnTypeWitness ==
    /\ macroOut.ok /\ macroOut.kind = "workflow"
    /\ macroIn.sig.output = ReturnType(SynGeneric(IdResumable, <<SynLeaf(IdU32)>>))
    /\ macroOut.out_struct.of = SynLeaf(IdU32)
    /\ Len(runs) > 0

\* The statements of an entry point, with or without the output struct.
EntrySteps(wraps) ==
    <<"value_from_host", "from_value", "call">>
    \o (IF wraps THEN <<"UserFnOut">> ELSE << >>)
    \o <<"to_value", "value_to_host", "vec_parts_to_host">>
IsPrefix(p, q) == Len(p) <= Len(q) /\ SubSeq(q, 1, Len(p)) = p
\* The invocation went through expected: the statements in that order, the
\* user function called once, and the address returned is that of an
\* 8-byte record holding the address and size of the block with the output
\* (run.packed), the record and that block being what the host is given.
WentThrough(run, expected) ==
    /\ IsPrefix(run.steps, expected)
    /\ run.users = (IF Len(run.steps) >= 3 THEN 1 ELSE 0)
    /\ ~run.fault => (run.steps = expected /\ run.packed /\ run.gave = 2)

EntryOrderFnWitness ==
    /\ macroOut.ok /\ macroOut.kind = "fn"
    /\ \E k \in 1..Len(runs) : ~runs[k].fault /\ runs[k].steps = EntrySteps(TRUE)

\* The item as its author wrote it: the names and types of its parameters,
\* and the type of what an invocation hands back (of a workflow, the T of
\* its Resumable<T>).
ParamNames(item) == [i \in 1..Len(item.sig.inputs) |-> item.sig.inputs[i].pat.ident]
ParamTypes(item) == [i \in 1..Len(item.sig.inputs) |-> RuntimeType(item.sig.inputs[i].ty)]
ResultType(kind, item) ==
    IF kind = "fn" THEN RuntimeType(item.sig.output.ty)
    ELSE RuntimeType(item.sig.output.ty.gargs[1].ty)

GeneratedAt == {i \in 1..Len(exported) : exported[i].by # "user"}
\* Two exported symbols of the crate with one name.
Collide(i, j) == i # j /\ exported[i].symbol = exported[j].symbol

\* The names of the entry points are a function of the macro and the
\* item's name, and a one-to-one function: two generated symbols have one
\* name exactly when one macro made them for one purpose from one name.
NamesDerived ==
    \A i, j \in GeneratedAt :
        (exported[i].symbol = exported[j].symbol)
            <=> /\ exported[i].by = exported[j].by
                /\ exported[i].of = exported[j].of
                /\ exported[i].role = exported[j].role

\* C15 as stated: the names are derived from the item's name, same name
\* same pair and different names different pairs, and no expansion is
\* emitted whose entry point has the name of another exported symbol.
NamesCollisionRejected ==
    /\ NamesDerived
    /\ \A i \in GeneratedAt : \A j \in 1..Len(exported) : ~Collide(i, j)

\* C15: the names of the entry points are derived from the item's name,
\* same name same pair and different names different pairs; the macro looks
\* at nothing but its item, and expands it whatever else the crate exports.
NamesDeterministic ==
    /\ NamesDerived
    /\ macroOut # NoItem =>
          /\ macroOut.ok
          /\ \E i \in GeneratedAt :
                /\ i < Len(exported)
                /\ exported[i].symbol = macroOut.user_fn_name
                /\ exported[i + 1].symbol = macroOut.introspect_fn_name
\* An expansion whose entry point has the name of a function the author
\* exports, next to the expansion of an item of another name.
NamesDeterministicWitness ==
    /\ macroOut # NoItem /\ macroOut.ok
    /\ \E i \in GeneratedAt : \E j \in 1..Len(exported) :
          Collide(i, j) /\ exported[j].by = "user"
    /\ \E i, j \in GeneratedAt :
          exported[i].by = exported[j].by /\ exported[i].of # exported[j].of

\* C16: the second component of the pair value_to_host returned is the
\* number of bytes the value was encoded to.
SizeIsLength ==
    cpc = "sent" => cblock[2] = Len(Encode(cval.v))

\* The word four bytes stand for, least significant byte first.
LittleEndian(bs, w) ==
    /\ \A i \in 1..4 : bs[i] \in 0..255
    /\ w = bs[1] + 256 * (bs[2] + 256 * (bs[3] + 256 * bs[4]))

\* C17: vec_parts_to_host(o, s) leaves an 8-byte record, the address in
\* its first four bytes and the length in its last four, each least
\* significant byte first, and vec_parts_from_host of the record's address
\* gives (o, s) back.
PackRoundTrip ==
    /\ cpc = "packed" =>
          /\ heap[cread.record].live
          /\ heap[cread.record].cap = 8
          /\ Len(heap[cread.record].bytes) = 8
          /\ LittleEndian(SubSeq(heap[cread.record].bytes, 1, 4), cblock[1])
          /\ LittleEndian(SubSeq(heap[cread.record].bytes, 5, 8), cblock[2])
    /\ cpc = "unpacked" => (~faulted /\ ~ubSeen /\ cread.parts = cblock)
PackRoundTripWitness ==
    /\ cpc = "unpacked"
    /\ cblock = <<16909060, 2147483647>>
    /\ cread.parts = cblock

\* C18: when value_from_host is over, with a value decoded or with a
\* panic, the block it was given is live no more and no Vec of the guest
\* owns it.
BlockReleased ==
    cpc \in {"done", "misread"} =>
        (~heap[cblock[1]].live /\ cblock[1] \notin guestOwns)
\* Where value_from_host decoded a value, or panicked in a build that
\* unwinds, the block is released.
BlockReleasedUnlessAbort ==
    (cpc \in {"done", "misread"} /\ (unwinds \/ ~faulted)) =>
        (~heap[cblock[1]].live /\ cblock[1] \notin guestOwns)

\* Inputs that are no input struct of the expanded item: a byte that opens
\* no MessagePack value, an encoding cut short, and a number where an
\* object or an array of the arguments is expected.
BadInputs == {Corrupt, Truncated(macroOut), Encode(JNum(1))}

\* C19: an invocation whose input block does not decode to the input
\* struct ends in a panic, the user function not called, and hands the host
\* neither an output block nor a record.
BadInputAborts ==
    \A k \in 1..Len(runs) :
        runs[k].input \in BadInputs =>
            /\ runs[k].fault
            /\ ~runs[k].entered /\ runs[k].users = 0
            /\ runs[k].gave = 0
            /\ ~runs[k].packed
\* One invocation on a number and one on a truncated encoding, both over.
BadInputAbortsWitness ==
    /\ macroOut.ok
    /\ Len(macroOut.call_args) = 2
    /\ \E k \in 1..Len(runs) :
          runs[k].input = Truncated(macroOut) /\ runs[k].input # Corrupt /\ runs[k].fault

\* A block the host obtained from wasm_alloc and has not passed on is live
\* and no value of the guest owns it.
FreshUntouched ==
    hostOK => \A h \in hostFresh : heap[h.addr].live /\ h.addr \notin guestOwns

\* C21: a block from wasm_alloc stays live and unconsumed until it is
\* passed to an entry point, and every invocation releases the input block
\* it was passed inside the guest (so that a later release of it by the
\* host, or a second invocation on it, is a second release).
InputAlwaysReleased ==
    /\ FreshUntouched
    /\ \A k \in 1..Len(runs) : runs[k].released

\* The invocations that release their input block: all but those whose
\* block holds no MessagePack value, in a build where a panic aborts.
InputReleasedUnlessAbort ==
    /\ FreshUntouched
    /\ \A k \in 1..Len(runs) :
          (unwinds \/ runs[k].input \notin {Corrupt, Truncated(macroOut)})
              => runs[k].released

HostCalls == {"mprint", "request", "prompt"}
\* The blocks outstanding are those of the descriptors the host holds.
OnlyHeldOutstanding ==
    hostOK => Outstanding(heap) = {h.addr : h \in hostHeld}

\* C22: mprint, request and prompt_with_schema hand the host one block each
\* and do not release it; request and prompt_with_schema release the record
\* and the payload of the host's response, once each; so the blocks
\* outstanding after any calls are the blocks handed to the host that it
\* has not released.
HostCallsBalance ==
    /\ call.fn \in HostCalls =>
          /\ call.sent = 1
          /\ call.fn # "mprint" => call.freed = 2
    /\ OnlyHeldOutstanding

\* What holds of the calls that did not panic, and of every call in a build
\* that unwinds.
HostCallsBalanceUnlessAbort ==
    /\ call.fn \in HostCalls =>
          /\ call.sent = 1
          /\ (call.fn # "mprint" /\ (unwinds \/ ~call.fault)) => call.freed = 2
    /\ (unwinds \/ ~faulted) => OnlyHeldOutstanding

\* The last invocation returned Ready.
ReadySeen ==
    /\ runs # << >>
    /\ ~runs[1].fault /\ ~runs[1].paused
    /\ Is(runs[1].result, "jobj") /\ DOMAIN runs[1].result.jobj = {StrReady}
\* In the last invocation some pause called host_pause and got nonzero.
SomeNonzero ==
    /\ runs # << >>
    /\ \E i \in 1..Len(runs[1].trace) :
          macroIn.block[i] = "pause" /\ runs[1].answers[i].ret # 0
\* Every timer of the host has elapsed.
AllElapsed == call.elapsed = PausesOf(macroIn.block)
\* An invocation on which host_pause returned 0 returned Pause; the user
\* function was called once, and its steps were started once each, in the
\* order of the body, up to the pause that returned Pause.
RunsOnce ==
    runs # << >> =>
        /\ ~runs[1].fault
        /\ runs[1].users = 1
        /\ IsPrefix(runs[1].trace, macroIn.block)
        /\ (\E i \in 1..Len(runs[1].answers) :
                macroIn.block[i] = "pause" /\ runs[1].answers[i].ret = 0)
             <=> runs[1].paused
        /\ runs[1].paused =>
              /\ macroIn.block[Len(runs[1].trace)] = "pause"
              /\ runs[1].answers[Len(runs[1].trace)].ret = 0

\* C23 as stated: once host_pause has returned nonzero, some invocation
\* returns Ready; an invocation on which host_pause returned 0 returns
\* Pause, and the guest does not invoke or retry by itself.
ResumesOnceNonzero == []RunsOnce /\ (<>SomeNonzero => <>ReadySeen)

\* C23: if from some time on host_pause returns nonzero to every pause of
\* the workflow, some invocation returns Ready; an invocation on which
\* host_pause returned 0 returns Pause, and the guest does not invoke or
\* retry by itself.
ResumesOnceAllNonzero == []RunsOnce /\ (<>[]AllElapsed => <>ReadySeen)
\* A workflow of two pauses returned Ready, not at its first invocation.
ResumesWitness ==
    /\ ReadySeen
    /\ Cardinality(PausesOf(macroIn.block)) = 2
    /\ invocations >= 2
    /\ Len(runs[1].trace) = 3
====
